---- MODULE Spec2Model ----
(***************************************************************************)
(* Drona AI: the adaptive difficulty engine (backend/adaptive.py), the     *)
(* Redis question cache (backend/cache.py), the interview memory           *)
(* (backend/memory.py) and the page flow of app.py.                        *)
(*                                                                         *)
(* Units.  Python floats are modelled by scaled integers:                  *)
(*   marks_earned          hundredths of a mark   (2.5 marks  = 250)       *)
(*   marks_total           whole marks                                     *)
(*   compute_score result  hundredths of a point  (8.0        = 800)       *)
(*   percentages           tenths of a percent    (60.0       = 600)       *)
(* round(x, n) is round-half-to-even on the exact quotient; the input      *)
(* pools below hold no value whose quotient is an inexact binary tie.      *)
(***************************************************************************)
EXTENDS Integers, Sequences, FiniteSets, TLC

VARIABLES
    \* st.session_state of app.py
    page, quiz, current, answers, topics, is_generating, num_q, session_id,
    current_difficulty, from_cache, target_role, difficulty,
    \* the file_uploader widget of the setup page
    uploaded,
    \* backend/cache.py: the module global _client, the REDIS_URL environment
    \* variable and the contents of the Redis server
    cache_client, redis_url, redis_data,
    \* backend/memory.py: the documents of the Chroma collection
    collection,
    \* uuid.uuid4(): the number of identifiers drawn so far
    uuid_count,
    \* backend/llm.py: the module global _client; the position of the
    \* generator ask_llm_stream; what the provider will do and the chunks it
    \* has still to send; the text fragments it has delivered; and the local
    \* buf of the report loop of app.py
    llm_client, gen_pc, provider, delivered, buf,
    \* the last library call observed (its name, arguments and result) and
    \* the one before it
    call, prev_call

appVars == <<page, quiz, current, answers, topics, is_generating, num_q,
             session_id, current_difficulty, from_cache, target_role,
             difficulty, uploaded>>
cacheVars == <<cache_client, redis_url, redis_data>>
memVars == <<collection>>
streamVars == <<llm_client, gen_pc, provider, delivered, buf>>
vars == <<appVars, cacheVars, memVars, streamVars, uuid_count, call,
          prev_call>>

----------------------------------------------------------------------------
(* Bounds of the model *)

\* longest answer history of the adaptive-engine specification
MaxHist == 4
\* largest small marks_total handed to compute_score
MaxScoreTotal == 10
\* one large marks_total handed to compute_score
LargeTotal == 2500
\* longest topic list handed to _make_key
MaxKeyTopics == 2
\* most entries the Redis server holds at once
MaxCacheEntries == 1
\* longest topic list of the setup page
MaxTopics == 1
\* longest answer history of one attempt
MaxAnswers == 2
\* most chunks of one provider stream
MaxChunks == 3
\* most returns to the setup page (reset_all) in one behaviour
MaxResets == 1
\* most documents the collection holds in the memory specification
MaxMemRecords == 4

----------------------------------------------------------------------------
(* Arithmetic helpers *)

Min(a, b) == IF a < b THEN a ELSE b

Max(a, b) == IF a > b THEN a ELSE b

\* Python round(): the quotient n/d (n >= 0, d > 0) to the nearest integer,
\* ties to even.
RoundHalfEven(n, d) ==
    LET q == n \div d
        r == n % d
    IN  IF 2 * r < d THEN q
        ELSE IF 2 * r > d THEN q + 1
        ELSE IF q % 2 = 0 THEN q ELSE q + 1

RECURSIVE SumSeq(_)
SumSeq(s) == IF s = <<>> THEN 0 ELSE s[1] + SumSeq(Tail(s))

\* Python s[-n:]
LastN(s, n) == SubSeq(s, Max(1, Len(s) - n + 1), Len(s))

SeqToSet(s) == {s[i] : i \in 1..Len(s)}

----------------------------------------------------------------------------
(* backend/adaptive.py *)

compute_score_trunc(marks_earned, marks_total) ==
    IF marks_total = 0 THEN 0 ELSE (marks_earned * 10) \div marks_total

compute_score(marks_earned, marks_total) ==
    IF marks_total = 0 THEN 0
    ELSE RoundHalfEven(marks_earned * 10, marks_total)

get_next_difficulty_ge(history) ==
    IF history = <<>> THEN "Moderate"
    ELSE LET recent == LastN(history, 3)
             scores == [i \in 1..Len(recent) |->
                          compute_score(recent[i].marks_earned,
                                        recent[i].marks_total)]
         IN  IF SumSeq(scores) >= 800 * Len(scores) THEN "Tough"
             ELSE IF SumSeq(scores) >= 500 * Len(scores) THEN "Moderate"
             ELSE "Easy"

\* avg > 8 is sum(scores) > 8 * len(scores), in hundredths
get_next_difficulty(history) ==
    IF history = <<>> THEN "Moderate"
    ELSE LET recent == LastN(history, 3)
             scores == [i \in 1..Len(recent) |->
                          compute_score(recent[i].marks_earned,
                                        recent[i].marks_total)]
         IN  IF SumSeq(scores) > 800 * Len(scores) THEN "Tough"
             ELSE IF SumSeq(scores) > 500 * Len(scores) THEN "Moderate"
             ELSE "Easy"

\* the keys of topic_data, in insertion order (a Python dict keeps it)
RECURSIVE TopicOrder(_)
TopicOrder(history) ==
    IF history = <<>> THEN <<>>
    ELSE LET front == TopicOrder(SubSeq(history, 1, Len(history) - 1))
             t == history[Len(history)].topic
         IN  IF t \in SeqToSet(front) THEN front ELSE Append(front, t)

\* topic_data[t]["earned"] and topic_data[t]["total"] after the loop
RECURSIVE TopicEarned(_, _)
TopicEarned(history, t) ==
    IF history = <<>> THEN 0
    ELSE (IF history[1].topic = t THEN history[1].marks_earned ELSE 0)
         + TopicEarned(Tail(history), t)

RECURSIVE TopicTotal(_, _)
TopicTotal(history, t) ==
    IF history = <<>> THEN 0
    ELSE (IF history[1].topic = t THEN history[1].marks_total ELSE 0)
         + TopicTotal(Tail(history), t)

topic_weakness_map_last(history) ==
    LET order == TopicOrder(history)
    IN  [i \in 1..Len(order) |->
           LET last == CHOOSE k \in 1..Len(history) :
                         /\ history[k].topic = order[i]
                         /\ \A j \in (k + 1)..Len(history) :
                              history[j].topic # order[i]
           IN  [topic |-> order[i],
                pct   |-> IF history[last].marks_total # 0
                          THEN RoundHalfEven(history[last].marks_earned * 10,
                                             history[last].marks_total)
                          ELSE 0]]

\* the returned dict as the sequence of its items, in insertion order
topic_weakness_map(history) ==
    LET order == TopicOrder(history)
    IN  [i \in 1..Len(order) |->
           [topic |-> order[i],
            pct   |-> IF TopicTotal(history, order[i]) # 0
                      THEN RoundHalfEven(TopicEarned(history, order[i]) * 10,
                                         TopicTotal(history, order[i]))
                      ELSE 0]]

RECURSIVE ItemsAtMost(_, _)
ItemsAtMost(items, threshold) ==
    IF items = <<>> THEN <<>>
    ELSE IF items[1].pct <= threshold
         THEN <<items[1].topic>> \o ItemsAtMost(Tail(items), threshold)
         ELSE ItemsAtMost(Tail(items), threshold)

get_weak_topics_le(history, threshold) ==
    ItemsAtMost(topic_weakness_map(history), threshold)

\* [t for t, pct in wmap.items() if pct < threshold]
RECURSIVE ItemsBelow(_, _)
ItemsBelow(items, threshold) ==
    IF items = <<>> THEN <<>>
    ELSE IF items[1].pct < threshold
         THEN <<items[1].topic>> \o ItemsBelow(Tail(items), threshold)
         ELSE ItemsBelow(Tail(items), threshold)

get_weak_topics(history, threshold) ==
    ItemsBelow(topic_weakness_map(history), threshold)

----------------------------------------------------------------------------
(* Python strings and their conversions; a str is a TLA+ string *)

Char(s, i) == SubSeq(s, i, i)

HasChar(s, c) == \E i \in 1..Len(s) : Char(s, i) = c

\* the characters of the model's strings, in code-point order
Alphabet == " \"',0123456789:ABCDEFGHIJKLMNOPQRSTUVWXYZ[\\]abcdefghijklmnopqrstuvwxyz"

CodePoint(c) == CHOOSE i \in 1..Len(Alphabet) : Char(Alphabet, i) = c

\* Python s < t on str: lexicographic by code point
RECURSIVE StrLess(_, _)
StrLess(s, t) ==
    IF t = "" THEN FALSE
    ELSE IF s = "" THEN TRUE
    ELSE IF Char(s, 1) = Char(t, 1)
         THEN StrLess(SubSeq(s, 2, Len(s)), SubSeq(t, 2, Len(t)))
         ELSE CodePoint(Char(s, 1)) < CodePoint(Char(t, 1))

\* x placed into the sorted list ts, after the elements not greater than it
RECURSIVE InsertSorted(_, _)
InsertSorted(ts, x) ==
    IF ts = <<>> THEN <<x>>
    ELSE IF StrLess(x, ts[1]) THEN <<x>> \o ts
    ELSE <<ts[1]>> \o InsertSorted(Tail(ts), x)

\* Python sorted() on a list of str
RECURSIVE sorted(_)
sorted(ts) ==
    IF ts = <<>> THEN <<>>
    ELSE InsertSorted(sorted(SubSeq(ts, 1, Len(ts) - 1)), ts[Len(ts)])

RECURSIVE EscapeFrom(_, _, _)
EscapeFrom(s, i, quote) ==
    IF i > Len(s) THEN ""
    ELSE (IF Char(s, i) = "\\" \/ Char(s, i) = quote
          THEN "\\" \o Char(s, i)
          ELSE Char(s, i))
         \o EscapeFrom(s, i + 1, quote)

PyReprStr_naive(s) == "'" \o s \o "'"

\* Python repr() of a str of printable characters: double quotes when the
\* string holds a single quote and no double quote, single quotes otherwise;
\* the backslash and the quote in use are escaped
PyReprStr(s) ==
    LET quote == IF HasChar(s, "'") /\ ~HasChar(s, "\"") THEN "\"" ELSE "'"
    IN  quote \o EscapeFrom(s, 1, quote) \o quote

RECURSIVE JoinReprs(_)
JoinReprs(ts) ==
    IF ts = <<>> THEN ""
    ELSE IF Len(ts) = 1 THEN PyReprStr(ts[1])
    ELSE PyReprStr(ts[1]) \o ", " \o JoinReprs(Tail(ts))

\* Python str() of a list of str
PyReprList(ts) == "[" \o JoinReprs(ts) \o "]"

\* Python str() of a non-negative int
RECURSIVE IntToStr(_)
IntToStr(n) ==
    IF n < 10 THEN Char("0123456789", n + 1)
    ELSE IntToStr(n \div 10) \o Char("0123456789", (n % 10) + 1)

----------------------------------------------------------------------------
(* backend/cache.py: key derivation *)

\* the string handed to hashlib.md5
KeyRaw(ts, diff, role, n) ==
    PyReprList(sorted(ts)) \o ":" \o diff \o ":" \o role \o ":" \o IntToStr(n)

\* The MD5 hex digest is represented by the string it digests: the digest is
\* taken to be injective, and the key is the prefix followed by it.
Md5Hex(raw) == <<"md5", raw>>

_make_key_unsorted(ts, diff, role, n) ==
    <<"dronaai:questions:",
      Md5Hex(PyReprList(ts) \o ":" \o diff \o ":" \o role \o ":"
             \o IntToStr(n))>>

_make_key(ts, diff, role, n) ==
    <<"dronaai:questions:", Md5Hex(KeyRaw(ts, diff, role, n))>>

\* the sequences over S of length at most n that hold no element twice
RECURSIVE DistinctSeqs(_, _)
DistinctSeqs(S, n) ==
    IF n = 0 THEN {<<>>}
    ELSE LET shorter == DistinctSeqs(S, n - 1)
         IN  shorter \cup
             UNION {{Append(q, x) : x \in S \ SeqToSet(q)} :
                      q \in {r \in shorter : Len(r) = n - 1}}

\* the parameter tuples of the cache specification
CacheParams ==
    {[topics |-> ts, difficulty |-> "Moderate", role |-> "Software Engineer",
      num_q |-> 10] : ts \in {<<"a">>, <<"b", "a">>}}

\* topics the user adds on the setup page
AppTopics == {"a", "b"}

\* the parameter tuples the setup page hands to the cache
AppParams ==
    {[topics |-> ts, difficulty |-> d, role |-> "Software Engineer",
      num_q |-> 10] :
       ts \in DistinctSeqs(AppTopics, MaxTopics),
       d \in {"Easy", "Moderate", "Tough"}}

\* _make_key of every parameter tuple in use, derived once
KeyTable ==
    [p \in CacheParams \cup AppParams |->
       _make_key(p.topics, p.difficulty, p.role, p.num_q)]

KeyOf(p) == KeyTable[p]

----------------------------------------------------------------------------
(* Question sets and their JSON text *)

\* a single-answer and a multiple-answer question, as app.py holds them
\* after normalisation
Q1 == [question |-> "Q1", options |-> <<"A", "B">>,
       correct_options |-> <<"A">>, topic |-> "Math",
       difficulty |-> "Moderate", marks |-> 5]

Q2 == [question |-> "Q2", options |-> <<"A", "B", "C">>,
       correct_options |-> <<"A", "B">>, topic |-> "Code",
       difficulty |-> "Tough", marks |-> 10]

QuizPool == {<<>>, <<Q1>>, <<Q1, Q2>>}

\* json.dumps of a str
JsonStr(s) == "\"" \o EscapeFrom(s, 1, "\"") \o "\""

RECURSIVE JsonStrItems(_)
JsonStrItems(ts) ==
    IF ts = <<>> THEN ""
    ELSE IF Len(ts) = 1 THEN JsonStr(ts[1])
    ELSE JsonStr(ts[1]) \o ", " \o JsonStrItems(Tail(ts))

\* json.dumps of one question dict, keys in insertion order
JsonQuestion(q) ==
    "{\"question\": " \o JsonStr(q.question)
    \o ", \"options\": [" \o JsonStrItems(q.options) \o "]"
    \o ", \"correct_options\": [" \o JsonStrItems(q.correct_options) \o "]"
    \o ", \"topic\": " \o JsonStr(q.topic)
    \o ", \"difficulty\": " \o JsonStr(q.difficulty)
    \o ", \"marks\": " \o IntToStr(q.marks) \o "}"

RECURSIVE JsonQuestionItems(_)
JsonQuestionItems(qs) ==
    IF qs = <<>> THEN ""
    ELSE IF Len(qs) = 1 THEN JsonQuestion(qs[1])
    ELSE JsonQuestion(qs[1]) \o ", " \o JsonQuestionItems(Tail(qs))

\* json.dumps(questions), for each question set of the pool
JsonTable == [qs \in QuizPool |-> "[" \o JsonQuestionItems(qs) \o "]"]

json_dumps(qs) == JsonTable[qs]

\* json.loads(data): the question set whose text data is; any other text
\* raises JSONDecodeError
json_loads(data) ==
    IF \E qs \in QuizPool : JsonTable[qs] = data
    THEN [raised |-> FALSE,
          val    |-> CHOOSE qs \in QuizPool : JsonTable[qs] = data]
    ELSE [raised |-> TRUE, val |-> <<>>]

----------------------------------------------------------------------------
(* backend/cache.py: client and store *)

CACHE_TTL == 21600

\* An optional value is <<>> (None) or <<v>>.  The Redis server is reached
\* or not at each request: up says which.

\* client.get(key)
RedisGet(data, key, up) ==
    IF ~up THEN [raised |-> TRUE, val |-> <<>>]
    ELSE [raised |-> FALSE,
          val    |-> IF key \in DOMAIN data THEN <<data[key].value>>
                     ELSE <<>>]

\* client.setex(key, ttl, value)
RedisSetex(data, key, ttl, value, up) ==
    IF ~up THEN [raised |-> TRUE, data |-> data]
    ELSE [raised |-> FALSE,
          data   |-> [k \in DOMAIN data \cup {key} |->
                        IF k = key THEN [value |-> value, ttl |-> ttl]
                        ELSE data[k]]]

_get_client_raising(client, url, up) ==
    IF client # "None" THEN [raised |-> FALSE, client |-> client]
    ELSE IF ~url THEN [raised |-> FALSE, client |-> "None"]
    ELSE IF up THEN [raised |-> FALSE, client |-> "client"]
    ELSE [raised |-> TRUE, client |-> "client"]

\* _get_client(): the value returned, which is also the new value of the
\* global _client; from_url and ping succeed iff the server is reached
_get_client(client, url, up) ==
    IF client # "None" THEN [raised |-> FALSE, client |-> client]
    ELSE IF ~url THEN [raised |-> FALSE, client |-> "None"]
    ELSE IF up THEN [raised |-> FALSE, client |-> "client"]
    ELSE [raised |-> FALSE, client |-> "None"]

\* Python truth of the str-or-None that client.get returns
Truthy(opt) == opt # <<>> /\ opt[1] # ""

get_cached_questions_or_none(client, url, data, p, ping_up, op_up) ==
    LET gc == _get_client(client, url, ping_up)
        got == RedisGet(data, KeyOf(p), op_up)
    IN  IF gc.raised
        THEN [raised |-> TRUE, ret |-> <<>>, client |-> gc.client]
        ELSE IF gc.client = "None" \/ got.raised \/ ~Truthy(got.val)
                \/ json_loads(got.val[1]).raised
                \/ json_loads(got.val[1]).val = <<>>
        THEN [raised |-> FALSE, ret |-> <<>>, client |-> gc.client]
        ELSE [raised |-> FALSE, ret |-> <<json_loads(got.val[1]).val>>,
              client |-> gc.client]

\* get_cached_questions(topics, difficulty, role, num_q): whether it raised,
\* the optional question set returned, and the new _client
get_cached_questions(client, url, data, p, ping_up, op_up) ==
    LET gc == _get_client(client, url, ping_up)
        got == RedisGet(data, KeyOf(p), op_up)
    IN  IF gc.raised
        THEN [raised |-> TRUE, ret |-> <<>>, client |-> gc.client]
        ELSE IF gc.client = "None"
        THEN [raised |-> FALSE, ret |-> <<>>, client |-> gc.client]
        ELSE IF got.raised \/ ~Truthy(got.val)
                \/ json_loads(got.val[1]).raised
        THEN [raised |-> FALSE, ret |-> <<>>, client |-> gc.client]
        ELSE [raised |-> FALSE, ret |-> <<json_loads(got.val[1]).val>>,
              client |-> gc.client]

\* cache_questions without its try/except around setex
cache_questions_raising(client, url, data, p, questions, ping_up, op_up) ==
    LET gc == _get_client(client, url, ping_up)
        put == RedisSetex(data, KeyOf(p), CACHE_TTL, json_dumps(questions),
                          op_up)
    IN  IF gc.raised \/ (gc.client # "None" /\ put.raised)
        THEN [raised |-> TRUE, ret |-> FALSE, client |-> gc.client,
              data |-> data]
        ELSE IF gc.client = "None"
        THEN [raised |-> FALSE, ret |-> FALSE, client |-> gc.client,
              data |-> data]
        ELSE [raised |-> FALSE, ret |-> TRUE, client |-> gc.client,
              data |-> put.data]

\* cache_questions(topics, difficulty, role, num_q, questions): whether it
\* raised, the bool returned, the new _client and the new server contents
cache_questions(client, url, data, p, questions, ping_up, op_up) ==
    LET gc == _get_client(client, url, ping_up)
        put == RedisSetex(data, KeyOf(p), CACHE_TTL, json_dumps(questions),
                          op_up)
    IN  IF gc.raised
        THEN [raised |-> TRUE, ret |-> FALSE, client |-> gc.client,
              data |-> data]
        ELSE IF gc.client = "None" \/ put.raised
        THEN [raised |-> FALSE, ret |-> FALSE, client |-> gc.client,
              data |-> data]
        ELSE [raised |-> FALSE, ret |-> TRUE, client |-> gc.client,
              data |-> put.data]

\* is_redis_connected()
is_redis_connected(client, url, ping_up, op_up) ==
    LET gc == _get_client(client, url, ping_up)
    IN  IF gc.raised
        THEN [raised |-> TRUE, ret |-> FALSE, client |-> gc.client]
        ELSE [raised |-> FALSE,
              ret    |-> gc.client # "None" /\ op_up,
              client |-> gc.client]

----------------------------------------------------------------------------
(* State shared by every specification *)

NoCall == [fn |-> "none", args |-> <<>>, ret |-> <<>>]

EmptyMap == [k \in {} |-> <<>>]

\* app.py _init_state on an empty session_state, drawing identifier number u
InitState(u) ==
    /\ page = "setup"
    /\ quiz = <<>>
    /\ current = 0
    /\ answers = <<>>
    /\ topics = <<>>
    /\ is_generating = FALSE
    /\ num_q = 10
    /\ session_id = u
    /\ current_difficulty = "Moderate"
    /\ from_cache = FALSE
    /\ target_role = "Software Engineer"
    /\ difficulty = "Moderate"

\* the provider of a process that has asked for no stream
NoProvider ==
    [key_ok |-> TRUE, request_ok |-> TRUE, script |-> <<>>, pos |-> 1]

\* no OpenAI client made, no report asked for
NoStream ==
    /\ llm_client = "None"
    /\ gen_pc = "idle"
    /\ provider = NoProvider
    /\ delivered = <<>>
    /\ buf = ""

\* a fresh process: no Redis handle, nothing stored, no call made yet
InitBase ==
    /\ InitState(1)
    /\ NoStream
    /\ uuid_count = 1
    /\ uploaded = FALSE
    /\ cache_client = "None"
    /\ redis_data = EmptyMap
    /\ collection = EmptyMap
    /\ call = NoCall
    /\ prev_call = NoCall

----------------------------------------------------------------------------
(* Specification SpecScore: compute_score applied to whole marks *)

ScoreTotals == (0..MaxScoreTotal) \cup {LargeTotal}

\* one call per behaviour: the arguments are drawn, the function is applied
CallComputeScore ==
    /\ call.fn = "none"
    /\ \E t \in ScoreTotals, e \in 0..LargeTotal :
         call' = [fn   |-> "compute_score",
                  args |-> <<e * 100, t>>,
                  ret  |-> compute_score(e * 100, t)]
    /\ UNCHANGED <<appVars, cacheVars, memVars, uuid_count, streamVars, prev_call>>

InitScore == InitBase /\ redis_url = FALSE

NextScore == CallComputeScore

SpecScore == InitScore /\ [][NextScore]_vars

----------------------------------------------------------------------------
(* Specification SpecAdaptive: the adaptive engine applied to histories *)

TopicNames == {"Math", "Code"}

\* <<marks_earned in hundredths, marks_total>> of the records of each topic
MarkPairs(t) ==
    IF t = "Math"
    THEN {<<0, 0>>, <<250, 5>>, <<400, 5>>, <<500, 5>>, <<100, 3>>}
    ELSE {<<0, 5>>, <<500, 5>>}

HistoryRecords ==
    UNION {{[topic |-> t, marks_earned |-> m[1], marks_total |-> m[2]] :
              m \in MarkPairs(t)} : t \in TopicNames}

\* get_weak_topics thresholds, in tenths of a percent (60.0 is the default)
Thresholds == {500, 600}

AppendAnswer ==
    /\ Len(answers) < MaxHist
    /\ \E r \in HistoryRecords : answers' = Append(answers, r)
    /\ call' = NoCall
    /\ UNCHANGED <<page, quiz, current, topics, is_generating, num_q,
                   session_id, current_difficulty, from_cache, target_role,
                   difficulty, uploaded, cacheVars, memVars, uuid_count,
                   streamVars, prev_call>>

CallGetNextDifficulty ==
    /\ call' = [fn   |-> "get_next_difficulty",
                args |-> <<answers>>,
                ret  |-> get_next_difficulty(answers)]
    /\ UNCHANGED <<appVars, cacheVars, memVars, uuid_count, streamVars, prev_call>>

CallTopicWeaknessMap ==
    /\ call' = [fn   |-> "topic_weakness_map",
                args |-> <<answers>>,
                ret  |-> topic_weakness_map(answers)]
    /\ UNCHANGED <<appVars, cacheVars, memVars, uuid_count, streamVars, prev_call>>

CallGetWeakTopics ==
    /\ \E th \in Thresholds :
         call' = [fn   |-> "get_weak_topics",
                  args |-> <<answers, th>>,
                  ret  |-> get_weak_topics(answers, th)]
    /\ UNCHANGED <<appVars, cacheVars, memVars, uuid_count, streamVars, prev_call>>

InitAdaptive == InitBase /\ redis_url = FALSE

NextAdaptive ==
    \/ AppendAnswer
    \/ CallGetNextDifficulty
    \/ CallTopicWeaknessMap
    \/ CallGetWeakTopics

SpecAdaptive == InitAdaptive /\ [][NextAdaptive]_vars

----------------------------------------------------------------------------
(* Claims about backend/adaptive.py *)

Abs(x) == IF x < 0 THEN 0 - x ELSE x

\* compute_score of the k-th record from the end of h, 0 when there is none
ScoreFromEnd(h, k) ==
    IF k > Len(h) THEN 0
    ELSE compute_score(h[Len(h) - k + 1].marks_earned,
                       h[Len(h) - k + 1].marks_total)

WindowSum(h) == ScoreFromEnd(h, 1) + ScoreFromEnd(h, 2) + ScoreFromEnd(h, 3)

\* C1: get_next_difficulty returns Moderate for an empty history; otherwise,
\* with n = min(3, len) and the mean of the compute_score values of the last
\* n records, it returns Tough iff mean > 8, Moderate iff 5 < mean <= 8 and
\* Easy iff mean <= 5; it always returns one of the three labels.
C1_NextDifficulty ==
    call.fn = "get_next_difficulty" =>
        LET h == call.args[1]
            n == Min(3, Len(h))
            total == WindowSum(h)
        IN  /\ call.ret \in {"Easy", "Moderate", "Tough"}
            /\ Len(h) = 0 => call.ret = "Moderate"
            /\ Len(h) > 0 =>
                 /\ call.ret = "Tough" <=> total > 800 * n
                 /\ call.ret = "Moderate" <=>
                      (total > 500 * n /\ total <= 800 * n)
                 /\ call.ret = "Easy" <=> total <= 500 * n

\* a history of four records whose last three average exactly 8 while the
\* first one scores 0: the result is Moderate
C1_Witness ==
    /\ call.fn = "get_next_difficulty"
    /\ Len(call.args[1]) = 4
    /\ WindowSum(call.args[1]) = 800 * 3
    /\ ScoreFromEnd(call.args[1], 4) = 0
    /\ call.ret = "Moderate"

\* C2 as amended: compute_score returns 0 when marks_total is 0 and otherwise
\* 10 * marks_earned / marks_total rounded to 2 decimals (within half a
\* hundredth of the quotient); for 0 <= marks_earned <= marks_total and
\* marks_total > 0 the result lies in [0, 10], is 0 when marks_earned is 0
\* and 10 when marks_earned is marks_total, and it is 0 (10) only when the
\* quotient is within half a hundredth of 0 (10).
C2_ScoreRounded ==
    call.fn = "compute_score" =>
        LET e == call.args[1]
            t == call.args[2]
        IN  /\ t = 0 => call.ret = 0
            /\ t > 0 => 2 * Abs(call.ret * t - 10 * e) <= t
            /\ (t > 0 /\ e <= 100 * t) =>
                 /\ call.ret >= 0 /\ call.ret <= 1000
                 /\ e = 0 => call.ret = 0
                 /\ e = 100 * t => call.ret = 1000
                 /\ call.ret = 0 => 20 * e <= t
                 /\ call.ret = 1000 => 20 * (100 * t - e) <= t

\* compute_score(1, 2500) is 0.0 although marks_earned is not 0
C2_Witness ==
    /\ call.fn = "compute_score"
    /\ call.args = <<100, 2500>>
    /\ call.ret = 0

\* C2 as stated: the result is exactly 10 * marks_earned / marks_total, and
\* in range it is 0 iff marks_earned is 0 and 10 iff marks_earned is
\* marks_total.
C2_Original ==
    call.fn = "compute_score" =>
        LET e == call.args[1]
            t == call.args[2]
        IN  /\ t = 0 => call.ret = 0
            /\ t > 0 => call.ret * t = 10 * e
            /\ (t > 0 /\ e <= 100 * t) =>
                 /\ call.ret >= 0 /\ call.ret <= 1000
                 /\ call.ret = 0 <=> e = 0
                 /\ call.ret = 1000 <=> e = 100 * t

Count(s, x) == Cardinality({i \in 1..Len(s) : s[i] = x})

\* C3: get_weak_topics returns exactly the topics whose percent in
\* topic_weakness_map(history) is strictly below the threshold, each once.
C3_WeakTopics ==
    call.fn = "get_weak_topics" =>
        LET wmap == topic_weakness_map(call.args[1])
            th == call.args[2]
        IN  /\ \A i \in 1..Len(wmap) :
                 Count(call.ret, wmap[i].topic)
                   = IF wmap[i].pct < th THEN 1 ELSE 0
            /\ \A j \in 1..Len(call.ret) :
                 \E i \in 1..Len(wmap) : wmap[i].topic = call.ret[j]

\* one topic sits exactly on the threshold and is left out, the other is
\* below it and returned
C3_Witness ==
    /\ call.fn = "get_weak_topics"
    /\ Len(call.ret) = 1
    /\ \E i \in 1..Len(topic_weakness_map(call.args[1])) :
         topic_weakness_map(call.args[1])[i].pct = call.args[2]

AllInRange(h) ==
    \A i \in 1..Len(h) : h[i].marks_earned <= 100 * h[i].marks_total

\* C4 as amended: topic_weakness_map has exactly one entry per distinct
\* topic of the history; each entry is 100 * (sum of marks_earned) / (sum of
\* marks_total) of the topic's records rounded to 1 decimal (within half a
\* tenth of the quotient), or 0 when that total is 0; when every record has
\* 0 <= marks_earned <= marks_total every value lies in [0, 100].
C4_WeaknessMap ==
    call.fn = "topic_weakness_map" =>
        LET h == call.args[1]
            m == call.ret
        IN  /\ {m[i].topic : i \in 1..Len(m)}
                 = {h[k].topic : k \in 1..Len(h)}
            /\ \A i, j \in 1..Len(m) : m[i].topic = m[j].topic => i = j
            /\ \A i \in 1..Len(m) :
                 LET e == TopicEarned(h, m[i].topic)
                     t == TopicTotal(h, m[i].topic)
                 IN  /\ t = 0 => m[i].pct = 0
                     /\ t > 0 => 2 * Abs(m[i].pct * t - 10 * e) <= t
                     /\ AllInRange(h) => (m[i].pct >= 0 /\ m[i].pct <= 1000)

\* two topics, one of them with several records and an inexact quotient
\* (Math 1/3 gives 33.3)
C4_Witness ==
    /\ call.fn = "topic_weakness_map"
    /\ Len(call.ret) = 2
    /\ \E i \in 1..2 :
         /\ TopicTotal(call.args[1], call.ret[i].topic) > 5
         /\ (10 * TopicEarned(call.args[1], call.ret[i].topic))
              % TopicTotal(call.args[1], call.ret[i].topic) # 0

\* C4 as stated: each entry equals the quotient itself.
C4_Original ==
    call.fn = "topic_weakness_map" =>
        LET h == call.args[1]
            m == call.ret
        IN  \A i \in 1..Len(m) :
              LET e == TopicEarned(h, m[i].topic)
                  t == TopicTotal(h, m[i].topic)
              IN  /\ t = 0 => m[i].pct = 0
                  /\ t > 0 => m[i].pct * t = 10 * e

----------------------------------------------------------------------------
(* Specification SpecKey: _make_key applied to two parameter tuples *)

\* topics as typed by the user (stripped, not empty); the third one reads
\* like the separator of a list of two
KeyTopics == {"a", "b", "a', 'b"}

\* the lists st.session_state.topics can hold: no topic twice
KeyTopicLists == DistinctSeqs(KeyTopics, MaxKeyTopics)

\* values of get_next_difficulty or of the Difficulty selectbox
KeyDifficulties == {"Easy", "Moderate"}

\* options of the Target Role selectbox
KeyRoles == {"Software Engineer", "Data Analyst"}

\* values of the Count slider
KeyCounts == {5, 10}

KeyParams ==
    [topics : KeyTopicLists, difficulty : KeyDifficulties, role : KeyRoles,
     num_q : KeyCounts]

\* one pair of calls per behaviour
CallMakeKeyTwice ==
    /\ call.fn = "none"
    /\ \E p1, p2 \in KeyParams :
         call' = [fn   |-> "_make_key",
                  args |-> <<p1, p2>>,
                  ret  |-> <<_make_key(p1.topics, p1.difficulty, p1.role,
                                       p1.num_q),
                             _make_key(p2.topics, p2.difficulty, p2.role,
                                       p2.num_q)>>]
    /\ UNCHANGED <<appVars, cacheVars, memVars, uuid_count, streamVars, prev_call>>

InitKey == InitBase /\ redis_url = FALSE

NextKey == CallMakeKeyTwice

SpecKey == InitKey /\ [][NextKey]_vars

----------------------------------------------------------------------------
(* Specification SpecCache: the cache operations against a Redis server    *)
(* that is reached or not at each request, whose entries expire and may    *)
(* be overwritten by other writers                                         *)

\* the question sets written by the calls of this specification
CacheQuizzes == {<<>>, <<Q1>>}

\* texts json.loads rejects or Python takes for false
MalformedPayloads == {"", "[{\"question\": "}

\* the stored text under key, as an optional value
EntryOf(data, key) == IF key \in DOMAIN data THEN <<data[key].value>> ELSE <<>>

CallGetCachedQuestions ==
    \E p \in CacheParams, ping_up \in BOOLEAN, op_up \in BOOLEAN :
      LET r == get_cached_questions(cache_client, redis_url, redis_data,
                                    p, ping_up, op_up)
      IN  /\ cache_client' = r.client
          /\ call' = [fn |-> "get_cached_questions", args |-> <<p>>,
                      up |-> <<ping_up, op_up>>,
                      pre_client |-> cache_client,
                      pre_entry |-> EntryOf(redis_data, KeyOf(p)),
                      raised |-> r.raised, ret |-> r.ret]
          /\ prev_call' = call
          /\ UNCHANGED <<appVars, redis_url, redis_data, memVars, uuid_count, streamVars>>

CallCacheQuestions ==
    \E p \in CacheParams, qs \in CacheQuizzes,
       ping_up \in BOOLEAN, op_up \in BOOLEAN :
      LET r == cache_questions(cache_client, redis_url, redis_data,
                               p, qs, ping_up, op_up)
      IN  /\ \/ KeyOf(p) \in DOMAIN redis_data
             \/ Cardinality(DOMAIN redis_data) < MaxCacheEntries
          /\ cache_client' = r.client
          /\ redis_data' = r.data
          /\ call' = [fn |-> "cache_questions", args |-> <<p, qs>>,
                      up |-> <<ping_up, op_up>>,
                      pre_client |-> cache_client,
                      pre_entry |-> EntryOf(redis_data, KeyOf(p)),
                      raised |-> r.raised, ret |-> r.ret]
          /\ prev_call' = call
          /\ UNCHANGED <<appVars, redis_url, memVars, uuid_count, streamVars>>

CallIsRedisConnected ==
    \E ping_up \in BOOLEAN, op_up \in BOOLEAN :
      LET r == is_redis_connected(cache_client, redis_url, ping_up, op_up)
      IN  /\ cache_client' = r.client
          /\ call' = [fn |-> "is_redis_connected", args |-> <<>>,
                      up |-> <<ping_up, op_up>>,
                      pre_client |-> cache_client,
                      pre_entry |-> <<>>,
                      raised |-> r.raised, ret |-> r.ret]
          /\ prev_call' = call
          /\ UNCHANGED <<appVars, redis_url, redis_data, memVars, uuid_count, streamVars>>

EnvCall(what) ==
    [fn |-> what, args |-> <<>>, up |-> <<>>, pre_client |-> cache_client,
     pre_entry |-> <<>>, raised |-> FALSE, ret |-> <<>>]

\* another writer leaves a text under a key that is no question set
EnvCorrupt ==
    /\ redis_url
    /\ \E p \in CacheParams, text \in MalformedPayloads :
         /\ \/ KeyOf(p) \in DOMAIN redis_data
            \/ Cardinality(DOMAIN redis_data) < MaxCacheEntries
         /\ redis_data' = [k \in DOMAIN redis_data \cup {KeyOf(p)} |->
                             IF k = KeyOf(p)
                             THEN [value |-> text, ttl |-> -1]
                             ELSE redis_data[k]]
    /\ call' = EnvCall("env_corrupt")
    /\ prev_call' = call
    /\ UNCHANGED <<appVars, cache_client, redis_url, memVars, uuid_count, streamVars>>

\* the time to live of an entry runs out
EnvExpire ==
    /\ \E k \in DOMAIN redis_data :
         /\ redis_data[k].ttl > 0
         /\ redis_data' = [j \in DOMAIN redis_data \ {k} |-> redis_data[j]]
    /\ call' = EnvCall("env_expire")
    /\ prev_call' = call
    /\ UNCHANGED <<appVars, cache_client, redis_url, memVars, uuid_count, streamVars>>

\* REDIS_URL is set or not when the process starts
InitCache == InitBase /\ redis_url \in BOOLEAN

NextCache ==
    \/ CallGetCachedQuestions
    \/ CallCacheQuestions
    \/ CallIsRedisConnected
    \/ EnvCorrupt
    \/ EnvExpire

SpecCache == InitCache /\ [][NextCache]_vars

----------------------------------------------------------------------------
(* backend/memory.py: the Chroma collection, a map from document          *)
(* identifier to metadata; `up` says whether Chroma answers the call      *)

\* str(uuid.uuid4()) of identifier number u
SessionStr(u) == "uuid" \o IntToStr(u)

\* a doc_id that leaves the session out
DocId_question_only(sid, question) == Md5Hex(question)

\* doc_id of store_answer
DocId(sid, question) == Md5Hex(SessionStr(sid) \o ":" \o question)

\* the metadata store_answer writes, and the question its document text
\* holds; score_percent is in tenths of a percent
MemoryRecord(sid, question, topic, diff, score_percent) ==
    [session_id    |-> sid,
     question      |-> question,
     topic         |-> topic,
     difficulty    |-> diff,
     score_percent |-> score_percent,
     correct       |-> score_percent >= 700]

\* store_answer with add in place of upsert: a present document is kept
store_answer_add(coll, sid, question, topic, diff, score_percent, up) ==
    IF ~up THEN [raised |-> FALSE, ret |-> FALSE, coll |-> coll]
    ELSE [raised |-> FALSE, ret |-> TRUE,
          coll |-> [d \in DOMAIN coll \cup {DocId(sid, question)} |->
                      IF d \in DOMAIN coll THEN coll[d]
                      ELSE MemoryRecord(sid, question, topic, diff,
                                        score_percent)]]

\* store_answer without its try/except: the error of Chroma reaches the
\* caller
store_answer_raising(coll, sid, question, topic, diff, score_percent, up) ==
    IF ~up THEN [raised |-> TRUE, ret |-> FALSE, coll |-> coll]
    ELSE [raised |-> FALSE, ret |-> TRUE,
          coll |-> [d \in DOMAIN coll \cup {DocId(sid, question)} |->
                      IF d = DocId(sid, question)
                      THEN MemoryRecord(sid, question, topic, diff,
                                        score_percent)
                      ELSE coll[d]]]

\* store_answer(session_id, question, ..., topic, difficulty,
\* score_percent): whether it raised, the bool returned and the new
\* collection
store_answer(coll, sid, question, topic, diff, score_percent, up) ==
    IF ~up THEN [raised |-> FALSE, ret |-> FALSE, coll |-> coll]
    ELSE [raised |-> FALSE, ret |-> TRUE,
          coll |-> [d \in DOMAIN coll \cup {DocId(sid, question)} |->
                      IF d = DocId(sid, question)
                      THEN MemoryRecord(sid, question, topic, diff,
                                        score_percent)
                      ELSE coll[d]]]

\* the documents a where={"session_id": ...} filter lets through
SessionIds(coll, sid) == {d \in DOMAIN coll : coll[d].session_id = sid}

\* top_k of get_weak_areas when the caller names none
DefaultTopK == 5

\* col.query(n_results=n, where=...): the lists Chroma may return, nearest
\* first; which documents are nearest is left to the embedding
QueryResults(coll, sid, n) ==
    LET ids == SessionIds(coll, sid)
        k   == Min(n, Cardinality(ids))
    IN  {r \in DistinctSeqs(ids, k) : Len(r) = k}

IsIncorrect(meta) == ~meta.correct

\* weak[t] after the loop over the metadatas
WeakCount(metas, t) ==
    Cardinality({i \in 1..Len(metas) :
                   IsIncorrect(metas[i]) /\ metas[i].topic = t})

\* sorted(weak.items(), key=lambda x: x[1], reverse=True): a stable sort,
\* topics of equal count stay in the order the dict holds them
RECURSIVE SortedWeak(_, _)
SortedWeak(order, metas) ==
    IF order = <<>> THEN <<>>
    ELSE LET front == SortedWeak(SubSeq(order, 1, Len(order) - 1), metas)
             t     == order[Len(order)]
             keep  == Cardinality({i \in 1..Len(front) :
                         WeakCount(metas, front[i]) >= WeakCount(metas, t)})
         IN  SubSeq(front, 1, keep) \o <<t>>
               \o SubSeq(front, keep + 1, Len(front))

\* get_weak_areas without the sort: topics in the order the dict holds them
get_weak_areas_unsorted(coll, sid, top_k, results, up) ==
    IF ~up \/ DOMAIN coll = {} THEN <<>>
    ELSE LET metas == [i \in 1..Len(results) |-> coll[results[i]]]
             order == TopicOrder(SelectSeq(metas, IsIncorrect))
         IN  SubSeq(order, 1, Min(top_k, Len(order)))

\* get_weak_areas(session_id, top_k), `results` being the list col.query
\* returned, one of QueryResults(coll, sid, min(top_k * 3, col.count()))
get_weak_areas(coll, sid, top_k, results, up) ==
    IF ~up \/ DOMAIN coll = {} THEN <<>>
    ELSE LET metas == [i \in 1..Len(results) |-> coll[results[i]]]
             sorted_weak ==
                 SortedWeak(TopicOrder(SelectSeq(metas, IsIncorrect)), metas)
         IN  SubSeq(sorted_weak, 1, Min(top_k, Len(sorted_weak)))

\* the topics of the session's records marked incorrect
WeakTopicSet(coll, sid) ==
    {coll[d].topic : d \in {e \in SessionIds(coll, sid) : ~coll[e].correct}}

\* list({...}): the orders in which Python may list the weak-topic set
WeakTopicOrders(coll, sid) ==
    LET w == WeakTopicSet(coll, sid)
    IN  {r \in DistinctSeqs(w, Cardinality(w)) : Len(r) = Cardinality(w)}

\* ', '.join(weak_topics)
RECURSIVE JoinTopics(_)
JoinTopics(ts) ==
    IF ts = <<>> THEN ""
    ELSE IF Len(ts) = 1 THEN ts[1]
    ELSE ts[1] \o ", " \o JoinTopics(Tail(ts))

\* the text get_session_history_summary returns
SummaryText(correct, total, weak_topics) ==
    "Past performance: " \o IntToStr(correct) \o "/" \o IntToStr(total)
      \o " correct. Weak areas from history: "
      \o (IF weak_topics # <<>> THEN JoinTopics(weak_topics)
          ELSE "none identified")
      \o "."

\* get_session_history_summary counting a record as correct only above 70
get_session_history_summary_gt(coll, sid, weak_topics, up) ==
    LET ids == SessionIds(coll, sid)
    IN  IF ~up \/ DOMAIN coll = {} \/ ids = {} THEN ""
        ELSE SummaryText(Cardinality({d \in ids :
                                        coll[d].score_percent > 700}),
                         Cardinality(ids), weak_topics)

\* get_session_history_summary(session_id), `weak_topics` being the list
\* made of the weak-topic set, one of WeakTopicOrders(coll, sid)
get_session_history_summary(coll, sid, weak_topics, up) ==
    LET ids == SessionIds(coll, sid)
    IN  IF ~up \/ DOMAIN coll = {} \/ ids = {} THEN ""
        ELSE SummaryText(Cardinality({d \in ids : coll[d].correct}),
                         Cardinality(ids), weak_topics)

\* clear_session_memory deleting only the records marked incorrect
clear_session_memory_incorrect(coll, sid, up) ==
    IF ~up THEN [ret |-> FALSE, coll |-> coll]
    ELSE [ret  |-> TRUE,
          coll |-> [d \in {e \in DOMAIN coll :
                             coll[e].session_id # sid \/ coll[e].correct}
                      |-> coll[d]]]

\* clear_session_memory(session_id): the bool returned and the new
\* collection
clear_session_memory(coll, sid, up) ==
    IF ~up THEN [ret |-> FALSE, coll |-> coll]
    ELSE [ret  |-> TRUE,
          coll |-> [d \in {e \in DOMAIN coll : coll[e].session_id # sid}
                      |-> coll[d]]]

----------------------------------------------------------------------------
(* Specification SpecMemory: the functions of backend/memory.py called    *)
(* for two sessions against one collection                                *)

\* identifiers of two sessions
MemSessions == {1, 2}

\* the question texts stored for a session
MemQuestions(sid) == IF sid = 1 THEN {"Q1", "Q2", "Q3", "Q4"} ELSE {"Q1"}

\* the topic of a question
MemTopic(question) == IF question \in {"Q1", "Q2"} THEN "Math" ELSE "Code"

\* score_percent of a wrong answer and of one just at 70
MemScores == {0, 700}

\* values of top_k
MemTopKs == {1, 2}

\* what is remembered of the call before the last: a clear_session_memory
CallBefore == IF call.fn = "clear_session_memory" THEN call ELSE NoCall

CallStoreAnswer ==
    /\ \E sid \in MemSessions, score \in MemScores, up \in BOOLEAN :
       \E question \in MemQuestions(sid) :
         LET r == store_answer(collection, sid, question, MemTopic(question),
                               "Moderate", score, up)
         IN  /\ Cardinality(DOMAIN r.coll) <= MaxMemRecords
             /\ collection' = r.coll
             /\ call' = [fn   |-> "store_answer",
                         args |-> <<sid, question, MemTopic(question),
                                    "Moderate", score>>,
                         up   |-> up,
                         pre  |-> collection,
                         ret  |-> r.ret]
    /\ prev_call' = CallBefore
    /\ UNCHANGED <<appVars, cacheVars, uuid_count, streamVars>>

CallGetWeakAreas ==
    /\ \E sid \in MemSessions, top_k \in MemTopKs, up \in BOOLEAN :
       \E results \in IF up
                        THEN QueryResults(collection, sid,
                                          Min(top_k * 3,
                                              Cardinality(DOMAIN collection)))
                        ELSE {<<>>} :
         call' = [fn      |-> "get_weak_areas",
                  args    |-> <<sid, top_k>>,
                  up      |-> up,
                  results |-> results,
                  ret     |-> get_weak_areas(collection, sid, top_k,
                                             results, up)]
    /\ prev_call' = CallBefore
    /\ UNCHANGED <<appVars, cacheVars, memVars, uuid_count, streamVars>>

CallGetSessionHistorySummary ==
    /\ \E sid \in MemSessions, up \in BOOLEAN :
       \E weak_topics \in IF up THEN WeakTopicOrders(collection, sid)
                            ELSE {<<>>} :
         call' = [fn   |-> "get_session_history_summary",
                  args |-> <<sid>>,
                  up   |-> up,
                  ret  |-> get_session_history_summary(collection, sid,
                                                       weak_topics, up)]
    /\ prev_call' = CallBefore
    /\ UNCHANGED <<appVars, cacheVars, memVars, uuid_count, streamVars>>

CallClearSessionMemory ==
    /\ \E sid \in MemSessions, up \in BOOLEAN :
         LET r == clear_session_memory(collection, sid, up)
         IN  /\ collection' = r.coll
             /\ call' = [fn   |-> "clear_session_memory",
                         args |-> <<sid>>,
                         up   |-> up,
                         pre  |-> collection,
                         ret  |-> r.ret]
    /\ prev_call' = CallBefore
    /\ UNCHANGED <<appVars, cacheVars, uuid_count, streamVars>>

InitMemory == InitBase /\ redis_url = FALSE

NextMemory ==
    \/ CallStoreAnswer
    \/ CallGetWeakAreas
    \/ CallGetSessionHistorySummary
    \/ CallClearSessionMemory

SpecMemory == InitMemory /\ [][NextMemory]_vars

----------------------------------------------------------------------------
(* backend/llm.py and the normalisation loop of app.py *)

\* the question sets the language model writes
LLMQuizzes == {<<>>, <<Q1, Q2>>}

\* replies of ask_llm: an empty array, an array inside prose, prose without
\* an array and an array that is not JSON
LLMReplies ==
    {json_dumps(<<>>), "Quiz: " \o json_dumps(<<Q1, Q2>>) \o " Done",
     "Sorry", "[{\"question\": ]"}

\* least and greatest position of character c in s, 0 when absent
FirstIndex(s, c) ==
    IF HasChar(s, c)
    THEN CHOOSE i \in 1..Len(s) :
           Char(s, i) = c /\ \A j \in 1..(i - 1) : Char(s, j) # c
    ELSE 0

LastIndex(s, c) ==
    IF HasChar(s, c)
    THEN CHOOSE i \in 1..Len(s) :
           Char(s, i) = c /\ \A j \in (i + 1)..Len(s) : Char(s, j) # c
    ELSE 0

\* safe_json returning no questions, instead of raising, when the text holds
\* no array
safe_json_lenient(text) ==
    LET a == FirstIndex(text, "[")
        b == LastIndex(text, "]")
    IN  IF a = 0 \/ b < a THEN [raised |-> FALSE, val |-> <<>>]
        ELSE json_loads(SubSeq(text, a, b))

\* safe_json(text): the greedy match of \[.*\] handed to json.loads
safe_json(text) ==
    LET a == FirstIndex(text, "[")
        b == LastIndex(text, "]")
    IN  IF a = 0 \/ b < a THEN [raised |-> TRUE, val |-> <<>>]
        ELSE json_loads(SubSeq(text, a, b))

\* str.strip() for blanks
RECURSIVE Strip(_)
Strip(s) ==
    IF s = "" THEN s
    ELSE IF Char(s, 1) = " " THEN Strip(SubSeq(s, 2, Len(s)))
    ELSE IF Char(s, Len(s)) = " " THEN Strip(SubSeq(s, 1, Len(s) - 1))
    ELSE s

\* the loop over the parsed questions: options and correct options stripped
NormalizeQuestion(q) ==
    [q EXCEPT !.options = [i \in 1..Len(q.options) |-> Strip(q.options[i])],
              !.correct_options =
                  [i \in 1..Len(q.correct_options) |->
                     Strip(q.correct_options[i])]]

\* safe_json and the normalisation of every reply, derived once
ReplyTable ==
    [t \in LLMReplies |->
       LET parsed == safe_json(t)
       IN  IF parsed.raised THEN parsed
           ELSE [raised |-> FALSE,
                 val    |-> [i \in 1..Len(parsed.val) |->
                               NormalizeQuestion(parsed.val[i])]]]

\* what ask_llm does: it raises, or returns one of the replies
LLMOutcomes ==
    {[kind |-> "error", text |-> ""]} \cup
    {[kind |-> "reply", text |-> t] : t \in LLMReplies}

----------------------------------------------------------------------------
(* Specification Spec: the pages of app.py. One action is one run of the  *)
(* script: the header, then the handler of the widget that triggered it.  *)
(* Target role and question count stay at their defaults.                 *)

\* the entries of the Difficulty selectbox the user picks
DifficultyOptions == {"Moderate", "Adaptive (Auto)"}

\* the outcomes of a request that is made only when `asked` holds
Outcomes(asked) == IF asked THEN BOOLEAN ELSE {TRUE}

\* whether a call with handle `client` has to connect first
Connects(client) == redis_url /\ client = "None"

\* the header: is_redis_connected() leaves its handle in _client
HeaderClient(ping_up) ==
    is_redis_connected(cache_client, redis_url, ping_up, ping_up).client

\* the header of a run that touches no cache entry
HeaderRun ==
    /\ \E ping_up \in Outcomes(Connects(cache_client)) :
         cache_client' = HeaderClient(ping_up)
    /\ UNCHANGED <<redis_url, redis_data, uuid_count, streamVars, prev_call>>

\* a run that touches neither cache entries nor the observed call
HeaderOnly == HeaderRun /\ call' = NoCall

OnSetup == page = "setup" /\ ~is_generating

\* "Add": the stripped text is appended unless empty or already present
AddTopic ==
    /\ OnSetup
    /\ Len(topics) < MaxTopics
    /\ \E t \in AppTopics \cup {" a"} :
         /\ Strip(t) \notin SeqToSet(topics)
         /\ topics' = Append(topics, Strip(t))
    /\ HeaderOnly
    /\ UNCHANGED <<page, quiz, current, answers, is_generating, num_q,
                   session_id, current_difficulty, from_cache, target_role,
                   difficulty, uploaded, memVars>>

\* "Clear Topics", shown when the list is not empty
ClearTopics ==
    /\ OnSetup
    /\ topics # <<>>
    /\ topics' = <<>>
    /\ HeaderOnly
    /\ UNCHANGED <<page, quiz, current, answers, is_generating, num_q,
                   session_id, current_difficulty, from_cache, target_role,
                   difficulty, uploaded, memVars>>

\* the Difficulty selectbox
SelectDifficulty ==
    /\ OnSetup
    /\ \E d \in DifficultyOptions \ {difficulty} : difficulty' = d
    /\ HeaderOnly
    /\ UNCHANGED <<page, quiz, current, answers, topics, is_generating,
                   num_q, session_id, current_difficulty, from_cache,
                   target_role, uploaded, memVars>>

\* the file uploader: a file is chosen or removed
ChangeUpload ==
    /\ OnSetup
    /\ uploaded' = ~uploaded
    /\ HeaderOnly
    /\ UNCHANGED <<page, quiz, current, answers, topics, is_generating,
                   num_q, session_id, current_difficulty, from_cache,
                   target_role, difficulty, memVars>>

\* "Clear Memory"
ClearMemory ==
    /\ OnSetup
    /\ \E up \in BOOLEAN :
         collection' = clear_session_memory(collection, session_id, up).coll
    /\ HeaderOnly
    /\ UNCHANGED appVars

\* "Launch Interview": refused without a topic and without a file
Launch ==
    /\ OnSetup
    /\ is_generating' = (topics # <<>> \/ uploaded)
    /\ HeaderOnly
    /\ UNCHANGED <<page, quiz, current, answers, topics, num_q, session_id,
                   current_difficulty, from_cache, target_role, difficulty,
                   uploaded, memVars>>

\* the generation block, run by the rerun that Launch asks for
Generate ==
    /\ page = "setup"
    /\ is_generating
    /\ \E hp \in Outcomes(Connects(cache_client)),
          pdf_ok \in Outcomes(uploaded),
          mem_up \in Outcomes(DOMAIN collection # {}) :
       \E gp \in Outcomes(Connects(HeaderClient(hp))) :
       \E go \in Outcomes(_get_client(HeaderClient(hp), redis_url, gp).client
                            # "None") :
       \E cp \in Outcomes(~gp), co \in Outcomes(redis_url),
          llm \in LLMOutcomes,
          results \in QueryResults(collection, session_id,
                                   Min(DefaultTopK * 3,
                                       Cardinality(DOMAIN collection))),
          weak_topics \in IF mem_up
                            THEN WeakTopicOrders(collection, session_id)
                            ELSE {<<>>} :
         LET c1       == HeaderClient(hp)
             weak     == SeqToSet(get_weak_areas(collection, session_id,
                                                 DefaultTopK, results,
                                                 mem_up))
             resolved == IF difficulty = "Adaptive (Auto)"
                         THEN get_next_difficulty(answers)
                         ELSE difficulty
             p        == [topics |-> topics, difficulty |-> resolved,
                          role |-> target_role, num_q |-> num_q]
             look     == get_cached_questions(c1, redis_url, redis_data, p,
                                              gp, go)
             hit      == look.ret # <<>> /\ look.ret[1] # <<>> /\ weak = {}
             parsed   == IF llm.kind = "reply" THEN ReplyTable[llm.text]
                         ELSE [raised |-> TRUE, val |-> <<>>]
             put      == cache_questions(look.client, redis_url, redis_data,
                                         p, parsed.val, cp, co)
             path     == IF uploaded /\ ~pdf_ok THEN "pdf_fault"
                         ELSE IF look.raised THEN "cache_fault"
                         ELSE IF hit THEN "hit"
                         ELSE "llm"
             done     == \/ path = "hit"
                         \/ path = "llm" /\ ~parsed.raised /\ ~put.raised
             wrote    == path = "llm" /\ ~parsed.raised
         IN  /\ wrote => \/ KeyOf(p) \in DOMAIN redis_data
                         \/ Cardinality(DOMAIN redis_data) < MaxCacheEntries
             /\ call' = [fn         |-> "generate",
                         args       |-> <<p>>,
                         pre        |-> [quiz |-> quiz, answers |-> answers,
                                         current |-> current,
                                         topics |-> topics,
                                         session_id |-> session_id],
                         pre_client |-> c1,
                         pre_entry  |-> EntryOf(redis_data, KeyOf(p)),
                         up         |-> IF path = "pdf_fault" THEN <<>>
                                        ELSE IF wrote THEN <<gp, go, cp, co>>
                                        ELSE <<gp, go>>,
                         weak       |-> weak,
                         mem_up     |-> mem_up,
                         history    |-> get_session_history_summary(
                                            collection, session_id,
                                            weak_topics, mem_up),
                         path       |-> path,
                         llm        |-> IF path = "llm" THEN llm
                                        ELSE [kind |-> "none", text |-> ""]]
             /\ current_difficulty' =
                  IF path = "pdf_fault" THEN current_difficulty ELSE resolved
             /\ from_cache' =
                  CASE path = "hit" -> TRUE
                    [] path = "llm" -> FALSE
                    [] OTHER        -> from_cache
             /\ cache_client' =
                  CASE path = "pdf_fault" -> c1
                    [] wrote              -> put.client
                    [] OTHER              -> look.client
             /\ redis_data' = IF wrote THEN put.data ELSE redis_data
             /\ is_generating' = FALSE
             /\ IF done
                THEN /\ quiz' = IF path = "hit" THEN look.ret[1]
                                ELSE parsed.val
                     /\ current' = 0
                     /\ answers' = <<>>
                     /\ page' = "quiz"
                     /\ uploaded' = FALSE
                ELSE UNCHANGED <<quiz, current, answers, page, uploaded>>
    /\ UNCHANGED <<topics, num_q, session_id, target_role, difficulty,
                   redis_url, memVars, uuid_count, streamVars, prev_call>>

\* another writer overwrites an entry with a text that is no question set
CacheCorrupted ==
    /\ OnSetup
    /\ \E k \in DOMAIN redis_data, text \in MalformedPayloads :
         /\ redis_data[k].value # text
         /\ redis_data' = [redis_data EXCEPT ![k] =
                             [value |-> text, ttl |-> -1]]
    /\ call' = NoCall
    /\ UNCHANGED <<appVars, cache_client, redis_url, memVars, uuid_count,
                   streamVars, prev_call>>

\* the time to live of an entry runs out
CacheExpired ==
    /\ OnSetup
    /\ \E k \in DOMAIN redis_data :
         /\ redis_data[k].ttl > 0
         /\ redis_data' = [j \in DOMAIN redis_data \ {k} |-> redis_data[j]]
    /\ call' = NoCall
    /\ UNCHANGED <<appVars, cache_client, redis_url, memVars, uuid_count,
                   streamVars, prev_call>>

\* the quiz page with no question left to show: on to the result page
QuizExhausted ==
    /\ page = "quiz"
    /\ current >= Len(quiz)
    /\ page' = "result"
    /\ HeaderOnly
    /\ UNCHANGED <<quiz, current, answers, topics, is_generating, num_q,
                   session_id, current_difficulty, from_cache, target_role,
                   difficulty, uploaded, memVars>>

OnQuestion == page = "quiz" /\ current < Len(quiz)

\* "Previous", shown after the first question
Previous ==
    /\ OnQuestion
    /\ current > 0
    /\ current' = current - 1
    /\ HeaderOnly
    /\ UNCHANGED <<page, quiz, answers, topics, is_generating, num_q,
                   session_id, current_difficulty, from_cache, target_role,
                   difficulty, uploaded, memVars>>

\* what the option widget can hold: any subset for a question with several
\* correct options, else the one option of the radio group
Selections(q) ==
    IF Len(q.correct_options) > 1 THEN SUBSET SeqToSet(q.options)
    ELSE {{o} : o \in SeqToSet(q.options)}

\* marks earned when every chosen option counts, correct or not
Earned_by_chosen(q, chosen_set) ==
    LET correct_set == SeqToSet(q.correct_options)
    IN  IF Cardinality(correct_set) = 1
        THEN IF chosen_set = correct_set THEN q.marks * 100 ELSE 0
        ELSE RoundHalfEven(q.marks * 100 * Cardinality(chosen_set),
                           Max(1, Cardinality(correct_set)))

\* marks earned by a chosen set, in hundredths of a mark
Earned(q, chosen_set) ==
    LET correct_set == SeqToSet(q.correct_options)
        matched     == Cardinality(chosen_set \cap correct_set)
    IN  IF Cardinality(correct_set) = 1
        THEN IF chosen_set = correct_set THEN q.marks * 100 ELSE 0
        ELSE RoundHalfEven(q.marks * 100 * matched,
                           Max(1, Cardinality(correct_set)))

\* the record Submit appends
AnswerRecord(idx, q, chosen_set) ==
    [index        |-> idx,
     question     |-> q.question,
     chosen       |-> chosen_set,
     correct      |-> SeqToSet(q.correct_options),
     marks_earned |-> Earned(q, chosen_set),
     marks_total  |-> q.marks,
     topic        |-> q.topic,
     difficulty   |-> q.difficulty,
     correct_flag |-> chosen_set = SeqToSet(q.correct_options)]

\* the record Skip appends
SkipRecord(idx, q) ==
    [index        |-> idx,
     question     |-> q.question,
     chosen       |-> {},
     correct      |-> SeqToSet(q.correct_options),
     marks_earned |-> 0,
     marks_total  |-> q.marks,
     topic        |-> q.topic,
     difficulty   |-> q.difficulty,
     correct_flag |-> FALSE]

\* a Submit that validates nothing: every selection passes
NoSelection_never(selected) == FALSE

\* "if not selected": the Submit that is refused
NoSelection(selected) == selected = {}

\* the record takes the place of the history's record of the same question
answers_append_replacing(history, record) ==
    IF \E i \in 1..Len(history) : history[i].index = record.index
    THEN [i \in 1..Len(history) |->
            IF history[i].index = record.index THEN record ELSE history[i]]
    ELSE Append(history, record)

\* st.session_state.answers.append(record)
answers_append(history, record) == Append(history, record)

\* what a run of "Submit" or "Skip" leaves to be observed: the widget
\* state, the session state before the run, whether a record was appended,
\* whether store_answer was called, whether Chroma answered it and what it
\* returned
QuizCall(fn, selected, appended, called, up, ret) ==
    [fn       |-> fn,
     args     |-> <<selected>>,
     pre      |-> [answers |-> answers, current |-> current, page |-> page,
                   quiz |-> quiz, collection |-> collection],
     appended |-> appended,
     called   |-> called,
     up       |-> up,
     ret      |-> ret]

\* "Submit": nothing happens without a selection, nor when the division by
\* marks_total fails; else the record is appended, handed to store_answer,
\* and the next question or the result page follows
Submit ==
    /\ OnQuestion
    /\ Len(answers) < MaxAnswers
    /\ \E selected \in Selections(quiz[current + 1]) :
       \E up \in IF NoSelection(selected) \/ quiz[current + 1].marks = 0
                  THEN {TRUE} ELSE BOOLEAN :
         LET q      == quiz[current + 1]
             rec    == AnswerRecord(current, q, selected)
             stored == store_answer(collection, session_id, q.question,
                                    q.topic, q.difficulty,
                                    RoundHalfEven(rec.marks_earned * 10,
                                                  q.marks),
                                    up)
         IN  IF NoSelection(selected) \/ q.marks = 0
             THEN /\ call' = QuizCall("submit", selected, FALSE, FALSE,
                                      TRUE, FALSE)
                  /\ UNCHANGED <<answers, current, page, collection>>
             ELSE /\ answers' = answers_append(answers, rec)
                  /\ collection' = stored.coll
                  /\ call' = QuizCall("submit", selected, TRUE, TRUE, up,
                                      stored.ret)
                  /\ IF stored.raised
                     THEN UNCHANGED <<current, page>>
                     ELSE /\ current' = current + 1
                          /\ page' = IF current + 1 >= Len(quiz)
                                     THEN "result" ELSE page
    /\ HeaderRun
    /\ UNCHANGED <<quiz, topics, is_generating, num_q, session_id,
                   current_difficulty, from_cache, target_role, difficulty,
                   uploaded>>

\* a Skip button shown on the last question as well
SkipShown_on_last == current < Len(quiz)

\* "if idx < total - 1": the Skip button is shown before the last question
SkipShown == current < Len(quiz) - 1

\* "Skip", shown before the last question: no store_answer
Skip ==
    /\ OnQuestion
    /\ SkipShown
    /\ Len(answers) < MaxAnswers
    /\ answers' = answers_append(answers,
                                 SkipRecord(current, quiz[current + 1]))
    /\ current' = current + 1
    /\ call' = QuizCall("skip", {}, TRUE, FALSE, TRUE, FALSE)
    /\ HeaderRun
    /\ UNCHANGED <<page, quiz, topics, is_generating, num_q, session_id,
                   current_difficulty, from_cache, target_role, difficulty,
                   uploaded, memVars>>

\* reset_all that keeps the answer history and the position
reset_all_keeping_history ==
    /\ page' = "setup"
    /\ quiz' = <<>>
    /\ current' = current
    /\ answers' = answers
    /\ topics' = <<>>
    /\ is_generating' = FALSE
    /\ num_q' = 10
    /\ session_id' = uuid_count + 1
    /\ uuid_count' = uuid_count + 1
    /\ current_difficulty' = "Moderate"
    /\ from_cache' = FALSE
    /\ target_role' = "Software Engineer"
    /\ difficulty' = "Moderate"
    /\ uploaded' = FALSE

\* reset_all: every key deleted, _init_state, and a fresh identifier
reset_all ==
    /\ page' = "setup"
    /\ quiz' = <<>>
    /\ current' = 0
    /\ answers' = <<>>
    /\ topics' = <<>>
    /\ is_generating' = FALSE
    /\ num_q' = 10
    /\ session_id' = uuid_count + 1
    /\ uuid_count' = uuid_count + 1
    /\ current_difficulty' = "Moderate"
    /\ from_cache' = FALSE
    /\ target_role' = "Software Engineer"
    /\ difficulty' = "Moderate"
    /\ uploaded' = FALSE

\* a run of the result page that ends in reset_all
ResetRun ==
    /\ uuid_count <= MaxResets
    /\ reset_all
    /\ \E ping_up \in Outcomes(Connects(cache_client)) :
         cache_client' = HeaderClient(ping_up)
    /\ UNCHANGED <<redis_url, redis_data, memVars, streamVars, prev_call>>

\* "Back to Setup" of the result page without answers
BackToSetup ==
    /\ page = "result"
    /\ answers = <<>>
    /\ call' = NoCall
    /\ ResetRun

\* "New Interview" of the result page: the page is drawn down to the
\* button, get_weak_areas of the session included, then reset_all
NewInterview ==
    /\ page = "result"
    /\ answers # <<>>
    /\ \E mem_up \in Outcomes(DOMAIN collection # {}) :
       \E results \in IF mem_up
                        THEN QueryResults(collection, session_id,
                                          Min(DefaultTopK * 3,
                                              Cardinality(DOMAIN collection)))
                        ELSE {<<>>} :
         call' = [fn               |-> "new_interview",
                  args             |-> <<session_id>>,
                  mem_up           |-> mem_up,
                  weak_from_memory |-> get_weak_areas(collection, session_id,
                                                      DefaultTopK, results,
                                                      mem_up),
                  ret              |-> <<>>]
    /\ ResetRun

Init == InitBase /\ redis_url \in BOOLEAN

Next ==
    \/ AddTopic
    \/ ClearTopics
    \/ SelectDifficulty
    \/ ChangeUpload
    \/ ClearMemory
    \/ Launch
    \/ Generate
    \/ CacheCorrupted
    \/ CacheExpired
    \/ QuizExhausted
    \/ Previous
    \/ Submit
    \/ Skip
    \/ BackToSetup
    \/ NewInterview

Spec == Init /\ [][Next]_vars

----------------------------------------------------------------------------
(* Specification SpecQuiz: the quiz page alone, started on question sets   *)
(* a generation can leave in session_state                                *)

\* a question whose reply named no correct option
Q3 == [question |-> "Q3", options |-> <<"A", "B">>,
       correct_options |-> <<>>, topic |-> "Math",
       difficulty |-> "Easy", marks |-> 3]

\* a question with three correct options out of four
Q4 == [question |-> "Q4", options |-> <<"A", "B", "C", "D">>,
       correct_options |-> <<"A", "B", "C">>, topic |-> "Code",
       difficulty |-> "Tough", marks |-> 10]

\* the question sets the quiz page is started on, the empty reply included
ScoredQuizzes == {<<>>, <<Q1, Q2>>, <<Q3, Q4>>, <<Q4, Q3>>}

\* the session state the generation block leaves: a question set, the first
\* question shown, no answers
InitQuiz ==
    /\ page = "quiz"
    /\ quiz \in ScoredQuizzes
    /\ current = 0
    /\ answers = <<>>
    /\ topics = <<"a">>
    /\ is_generating = FALSE
    /\ num_q = 10
    /\ session_id = 1
    /\ current_difficulty = "Moderate"
    /\ from_cache = FALSE
    /\ target_role = "Software Engineer"
    /\ difficulty = "Moderate"
    /\ uuid_count = 1
    /\ uploaded = FALSE
    /\ cache_client = "None"
    /\ redis_url = FALSE
    /\ redis_data = EmptyMap
    /\ collection = EmptyMap
    /\ NoStream
    /\ call = NoCall
    /\ prev_call = NoCall

NextQuiz ==
    \/ QuizExhausted
    \/ Previous
    \/ Submit
    \/ Skip

SpecQuiz == InitQuiz /\ [][NextQuiz]_vars

----------------------------------------------------------------------------
(* Specification SpecStream: "Generate AI Report" of the result page. The  *)
(* generator ask_llm_stream runs one segment per step, from one yield to   *)
(* the next, and the loop of app.py appends what it yields to buf.        *)

\* llm.py _get_client(): the OpenAI client is made on first use, and its
\* constructor raises when no API key is to be had
llm_get_client(client, key_ok) ==
    IF client # "None" THEN [raised |-> FALSE, client |-> client]
    ELSE IF key_ok THEN [raised |-> FALSE, client |-> "OpenAI"]
    ELSE [raised |-> TRUE, client |-> "None"]

\* the chunks of a provider stream: a delta with text, a delta whose
\* content is empty, a chunk without choices, and an error raised by the
\* iteration in place of a chunk
TextChunk(s) == [kind |-> "text", content |-> s]
NoChoices == [kind |-> "nochoices", content |-> ""]
StreamFault == [kind |-> "error", content |-> ""]
ChunkKinds == {TextChunk("a"), TextChunk("b"), TextChunk(""), NoChoices,
               StreamFault}

\* the streams a provider sends: nothing follows an error
RECURSIVE StreamsOfLen(_)
StreamsOfLen(n) ==
    IF n = 0 THEN {<<>>}
    ELSE {<<>>} \cup
         UNION {{<<c>> \o s : s \in IF c.kind = "error" THEN {<<>>}
                                     ELSE StreamsOfLen(n - 1)} :
                c \in ChunkKinds}

ProviderScripts == StreamsOfLen(MaxChunks)

\* f"\n... Streaming error: {e}" for the one error text of the model; the
\* warning sign of the source is written as "(!)"
StreamingError == "\n(!) Streaming error: e"

\* buf = token in place of buf += token
AppendToken_overwrite(b, token) == token

\* buf += token
AppendToken(b, token) == b \o token

\* the button: the prompt is built, buf = "", and the generator object is
\* made; what the provider will do is drawn here
GenerateReport ==
    /\ page = "result"
    /\ answers # <<>>
    /\ gen_pc \in {"idle", "done", "raised"}
    /\ \E ping_up \in Outcomes(Connects(cache_client)) :
         cache_client' = HeaderClient(ping_up)
    /\ \E key_ok \in Outcomes(llm_client = "None"), request_ok \in BOOLEAN :
       \E script \in IF request_ok THEN ProviderScripts ELSE {<<>>} :
         provider' = [key_ok |-> key_ok, request_ok |-> request_ok,
                      script |-> script, pos |-> 1]
    /\ gen_pc' = "created"
    /\ delivered' = <<>>
    /\ buf' = ""
    /\ UNCHANGED <<appVars, redis_url, redis_data, memVars, llm_client,
                   uuid_count, call, prev_call>>

\* first next(): client = _get_client(), outside the try
StreamStart ==
    /\ gen_pc = "created"
    /\ LET r == llm_get_client(llm_client, provider.key_ok)
       IN  /\ llm_client' = r.client
           /\ gen_pc' = IF r.raised THEN "raised" ELSE "request"
    /\ UNCHANGED <<appVars, cacheVars, memVars, provider, delivered, buf,
                   uuid_count, call, prev_call>>

\* client.chat.completions.create(stream=True): the stream opens, or the
\* except clause yields the diagnostic and the loop appends it
StreamRequest ==
    /\ gen_pc = "request"
    /\ IF provider.request_ok
       THEN gen_pc' = "iterating" /\ buf' = buf
       ELSE gen_pc' = "failed" /\ buf' = AppendToken(buf, StreamingError)
    /\ UNCHANGED <<appVars, cacheVars, memVars, llm_client, provider,
                   delivered, uuid_count, call, prev_call>>

\* one turn of "for chunk in stream": a text is yielded and appended, a
\* chunk without text is passed over, an error of the iteration yields the
\* diagnostic
StreamChunk ==
    /\ gen_pc = "iterating"
    /\ provider.pos <= Len(provider.script)
    /\ LET chunk == provider.script[provider.pos]
       IN  CASE chunk.kind = "text" ->
                  /\ delivered' = Append(delivered, chunk.content)
                  /\ buf' = IF chunk.content # ""
                            THEN AppendToken(buf, chunk.content) ELSE buf
                  /\ provider' = [provider EXCEPT !.pos = @ + 1]
                  /\ gen_pc' = gen_pc
             [] chunk.kind = "nochoices" ->
                  /\ provider' = [provider EXCEPT !.pos = @ + 1]
                  /\ UNCHANGED <<delivered, buf, gen_pc>>
             [] chunk.kind = "error" ->
                  /\ buf' = AppendToken(buf, StreamingError)
                  /\ gen_pc' = "failed"
                  /\ UNCHANGED <<delivered, provider>>
    /\ UNCHANGED <<appVars, cacheVars, memVars, llm_client, uuid_count, call,
                   prev_call>>

\* the generator returns: the stream is exhausted, or the diagnostic was
\* the last thing yielded; the loop ends and buf is shown without cursor
StreamEnd ==
    /\ \/ gen_pc = "iterating" /\ provider.pos > Len(provider.script)
       \/ gen_pc = "failed"
    /\ gen_pc' = "done"
    /\ UNCHANGED <<appVars, cacheVars, memVars, llm_client, provider,
                   delivered, buf, uuid_count, call, prev_call>>

\* the result page of an attempt on one question, served from the cache of
\* an earlier process (no OpenAI client made yet) or written by ask_llm
InitReport ==
    /\ page = "result"
    /\ quiz = <<Q1>>
    /\ current = 1
    /\ answers = <<AnswerRecord(0, Q1, {"A"})>>
    /\ topics = <<"a">>
    /\ is_generating = FALSE
    /\ num_q = 10
    /\ session_id = 1
    /\ current_difficulty = "Moderate"
    /\ from_cache \in BOOLEAN
    /\ target_role = "Software Engineer"
    /\ difficulty = "Moderate"
    /\ uuid_count = 1
    /\ uploaded = FALSE
    /\ redis_url = from_cache
    /\ cache_client = IF from_cache THEN "client" ELSE "None"
    /\ redis_data =
         IF from_cache
         THEN cache_questions("None", TRUE, EmptyMap,
                              [topics |-> <<"a">>, difficulty |-> "Moderate",
                               role |-> "Software Engineer", num_q |-> 10],
                              <<Q1>>, TRUE, TRUE).data
         ELSE EmptyMap
    /\ collection = store_answer(EmptyMap, 1, "Q1", "Math", "Moderate", 1000,
                                 TRUE).coll
    /\ llm_client = IF from_cache THEN "None" ELSE "OpenAI"
    /\ gen_pc = "idle"
    /\ provider = NoProvider
    /\ delivered = <<>>
    /\ buf = ""
    /\ call = NoCall
    /\ prev_call = NoCall

NextStream ==
    \/ GenerateReport
    \/ StreamStart
    \/ StreamRequest
    \/ StreamChunk
    \/ StreamEnd

SpecStream == InitReport /\ [][NextStream]_vars

----------------------------------------------------------------------------
(* Claims about the cache key *)

IsPermutation(a, b) ==
    /\ Len(a) = Len(b)
    /\ \A x \in SeqToSet(a) \cup SeqToSet(b) : Count(a, x) = Count(b, x)

\* C5: two topic lists that are permutations of each other, with equal
\* difficulty, role and question count, derive the same cache key.
C5_KeyOrderIndependent ==
    call.fn = "_make_key" =>
        LET p1 == call.args[1]
            p2 == call.args[2]
        IN  ( /\ IsPermutation(p1.topics, p2.topics)
              /\ p1.difficulty = p2.difficulty
              /\ p1.role = p2.role
              /\ p1.num_q = p2.num_q )
            => call.ret[1] = call.ret[2]

\* the same two topics given in the two orders derive one key
C5_Witness ==
    /\ call.fn = "_make_key"
    /\ Len(call.args[1].topics) = 2
    /\ call.args[1].topics # call.args[2].topics
    /\ IsPermutation(call.args[1].topics, call.args[2].topics)
    /\ call.args[1].difficulty = call.args[2].difficulty
    /\ call.args[1].role = call.args[2].role
    /\ call.args[1].num_q = call.args[2].num_q
    /\ call.ret[1] = call.ret[2]

\* C6: two parameter tuples that derive the same key (the same pre-hash
\* string) have the same topics up to order, the same difficulty, the same
\* role and the same question count.
C6_KeyInjective ==
    call.fn = "_make_key" =>
        LET p1 == call.args[1]
            p2 == call.args[2]
        IN  call.ret[1] = call.ret[2] =>
              /\ IsPermutation(p1.topics, p2.topics)
              /\ p1.difficulty = p2.difficulty
              /\ p1.role = p2.role
              /\ p1.num_q = p2.num_q

\* the one topic "a', 'b" and the two topics "a", "b": different keys
C6_Witness ==
    /\ call.fn = "_make_key"
    /\ call.args[1].topics = <<"a', 'b">>
    /\ call.args[2].topics = <<"a", "b">>
    /\ call.args[1].difficulty = call.args[2].difficulty
    /\ call.args[1].role = call.args[2].role
    /\ call.args[1].num_q = call.args[2].num_q
    /\ call.ret[1] # call.ret[2]

----------------------------------------------------------------------------
(* Claims about the cache store *)

\* the server was configured and reached throughout the call
StoreAvailable(c) == redis_url /\ c.up = <<TRUE, TRUE>>

\* the server was not configured, or not reached at any request of the call
StoreUnavailable(c) == ~redis_url \/ c.up = <<FALSE, FALSE>>

\* C7: cache_questions(params, Q) immediately followed by
\* get_cached_questions(params) returns Q when the store is available for
\* both calls, and get_cached_questions returns None without raising when
\* the store is unavailable.
C7_RoundTrip ==
    call.fn = "get_cached_questions" =>
        /\ ( /\ prev_call.fn = "cache_questions"
             /\ prev_call.args[1] = call.args[1]
             /\ StoreAvailable(prev_call)
             /\ StoreAvailable(call) )
           => (~call.raised /\ call.ret = <<prev_call.args[2]>>)
        /\ StoreUnavailable(call) => (~call.raised /\ call.ret = <<>>)

\* the empty question set written and read back over an entry that was
\* malformed before
C7_Witness ==
    /\ call.fn = "get_cached_questions"
    /\ prev_call.fn = "cache_questions"
    /\ prev_call.args[1] = call.args[1]
    /\ prev_call.pre_entry \in {<<t>> : t \in MalformedPayloads}
    /\ StoreAvailable(prev_call)
    /\ StoreAvailable(call)
    /\ prev_call.args[2] = <<>>
    /\ call.ret = << <<>> >>

\* the backend states of C8, as the call met them
UrlNotConfigured(c) == ~redis_url

ConnectRefused(c) == redis_url /\ c.pre_client = "None" /\ ~c.up[1]

ConnectionLost(c) == c.pre_client # "None" /\ ~c.up[2]

MalformedStored(c) == c.pre_entry \in {<<t>> : t \in MalformedPayloads}

MissingKey(c) == c.pre_entry = <<>>

\* C8: with the URL not configured, the connection refused at connect, the
\* connection lost after the handle was cached, a malformed stored payload
\* or a missing key, get_cached_questions returns None; cache_questions
\* returns True exactly when the entry was written and False in the three
\* connection failures; neither ever raises.
C8_CacheNeverRaises ==
    /\ call.fn = "get_cached_questions" =>
         /\ ~call.raised
         /\ ( \/ UrlNotConfigured(call) \/ ConnectRefused(call)
              \/ ConnectionLost(call) \/ MalformedStored(call)
              \/ MissingKey(call) )
            => call.ret = <<>>
    /\ call.fn = "cache_questions" =>
         /\ ~call.raised
         /\ call.ret \in BOOLEAN
         /\ ( \/ UrlNotConfigured(call) \/ ConnectRefused(call)
              \/ ConnectionLost(call) )
            => call.ret = FALSE
         /\ call.ret = TRUE =>
              /\ KeyOf(call.args[1]) \in DOMAIN redis_data
              /\ redis_data[KeyOf(call.args[1])]
                   = [value |-> json_dumps(call.args[2]), ttl |-> CACHE_TTL]
         /\ call.ret = FALSE =>
              EntryOf(redis_data, KeyOf(call.args[1])) = call.pre_entry

\* the connection was lost after the handle was cached and
\* get_cached_questions returned None although a well-formed entry is
\* stored under the key
C8_Witness ==
    /\ call.fn = "get_cached_questions"
    /\ ConnectionLost(call)
    /\ call.pre_entry = <<json_dumps(<<Q1>>)>>
    /\ call.ret = <<>>
    /\ ~call.raised

----------------------------------------------------------------------------
(* Claims about the page flow *)

\* the generation met a fault of the cache while looking the key up
LookupFault(c) ==
    \/ UrlNotConfigured(c) \/ ConnectRefused(c) \/ ConnectionLost(c)
    \/ MalformedStored(c)

\* the generation wrote to the cache and the write failed
WriteFault(c) ==
    /\ Len(c.up) = 4
    /\ \/ ~redis_url
       \/ ~c.up[1] /\ ~c.up[3]
       \/ ~c.up[4]

\* the language model replied and the reply parsed to a question set
LLMSucceeded(c) ==
    /\ c.path = "llm"
    /\ c.llm.kind = "reply"
    /\ ~ReplyTable[c.llm.text].raised

\* C9: the generation flow never fails because of the cache: no generation
\* stops at a cache operation, a cache fault during the lookup is taken for
\* a miss, and whatever the cache did during lookup and write, a generation
\* whose language-model call succeeds ends with page "quiz", current 0, no
\* answers and is_generating false, showing the questions of the reply.
C9_GenerationSurvivesCache ==
    call.fn = "generate" =>
        /\ call.path \in {"pdf_fault", "hit", "llm"}
        /\ (call.path # "pdf_fault" /\ LookupFault(call))
              => call.path = "llm"
        /\ LLMSucceeded(call) =>
              /\ page = "quiz"
              /\ current = 0
              /\ answers = <<>>
              /\ ~is_generating
              /\ ~from_cache
              /\ quiz = ReplyTable[call.llm.text].val

\* a generation that found a malformed entry under its key, whose write was
\* lost, and that ended on the quiz page with the two questions of the reply
C9_Witness ==
    /\ call.fn = "generate"
    /\ LLMSucceeded(call)
    /\ MalformedStored(call)
    /\ WriteFault(call)
    /\ ~call.up[4]
    /\ page = "quiz"
    /\ quiz = <<Q1, Q2>>
    /\ current = 0
    /\ answers = <<>>

\* C10: the session identifier is stable across attempts, so every record
\* the memory store holds was stored under the identifier in use and is
\* among the records the next generation queries.
C10_SessionStable ==
    \A d \in DOMAIN collection : collection[d].session_id = session_id

----------------------------------------------------------------------------
(* Claims about the memory store *)

\* the records and the question texts a collection holds for a session
SessionRecords(coll, sid) == {coll[d] : d \in SessionIds(coll, sid)}

QuestionsOf(coll, sid) == {coll[d].question : d \in SessionIds(coll, sid)}

\* C11: store_answer is an idempotent upsert keyed by (session_id, question
\* text): a session holds as many records as distinct question texts, a
\* store that returned True leaves the session with the questions it had
\* plus the stored one, the record of the stored question holds the values
\* just stored and the records of the other questions are as before.
C11_IdempotentUpsert ==
    /\ \A sid \in MemSessions :
         Cardinality(SessionIds(collection, sid))
           = Cardinality(QuestionsOf(collection, sid))
    /\ (call.fn = "store_answer" /\ call.ret) =>
         LET sid == call.args[1]
             q   == call.args[2]
         IN  /\ QuestionsOf(collection, sid)
                  = QuestionsOf(call.pre, sid) \cup {q}
             /\ Cardinality(SessionIds(collection, sid))
                  = Cardinality(QuestionsOf(call.pre, sid) \cup {q})
             /\ \A r \in SessionRecords(collection, sid) :
                  IF r.question = q
                  THEN /\ r.topic = call.args[3]
                       /\ r.difficulty = call.args[4]
                       /\ r.score_percent = call.args[5]
                       /\ r.correct = (call.args[5] >= 700)
                  ELSE r \in SessionRecords(call.pre, sid)

\* a question stored with score 0 is stored again with score 70: still one
\* record for it, now marked correct
C11_Witness ==
    /\ call.fn = "store_answer"
    /\ call.ret
    /\ call.args[5] = 700
    /\ \E r \in SessionRecords(call.pre, call.args[1]) :
         r.question = call.args[2] /\ r.score_percent = 0
    /\ Cardinality(SessionIds(call.pre, call.args[1])) = 2
    /\ Cardinality(SessionIds(collection, call.args[1])) = 2

\* the collection cut down to the records of one session
OnlySession(coll, sid) == [d \in SessionIds(coll, sid) |-> coll[d]]

\* C12: no cross-session leakage: store_answer and clear_session_memory
\* called for T leave the records of every other session S unchanged;
\* get_weak_areas(S) and get_session_history_summary(S) retrieve and
\* report only records of S, and return what they return when the
\* collection holds the records of S alone.
C12_NoCrossSessionLeak ==
    /\ call.fn \in {"store_answer", "clear_session_memory"} =>
         \A sid \in MemSessions \ {call.args[1]} :
            SessionRecords(collection, sid) = SessionRecords(call.pre, sid)
    /\ call.fn = "get_weak_areas" =>
         /\ \A i \in 1..Len(call.results) :
              collection[call.results[i]].session_id = call.args[1]
         /\ \A i \in 1..Len(call.ret) :
              \E r \in SessionRecords(collection, call.args[1]) :
                 r.topic = call.ret[i] /\ ~r.correct
         /\ call.ret = get_weak_areas(OnlySession(collection, call.args[1]),
                                      call.args[1], call.args[2],
                                      call.results, call.up)
    /\ call.fn = "get_session_history_summary" =>
         \E weak_topics \in WeakTopicOrders(collection, call.args[1]) :
            call.ret = get_session_history_summary(
                          OnlySession(collection, call.args[1]),
                          call.args[1], weak_topics, call.up)

\* question Q1 is stored for session 2 while session 1 holds its own record
\* of Q1, which is still there afterwards
C12_Witness ==
    /\ call.fn = "store_answer"
    /\ call.ret
    /\ call.args[1] = 2
    /\ call.args[2] = "Q1"
    /\ "Q1" \in QuestionsOf(call.pre, 1)
    /\ "Q1" \in QuestionsOf(collection, 1)
    /\ "Q1" \in QuestionsOf(collection, 2)

\* the last call read session S right after a clear_session_memory(S)
ReadAfterClear ==
    /\ call.fn \in {"get_weak_areas", "get_session_history_summary"}
    /\ prev_call.fn = "clear_session_memory"
    /\ prev_call.args[1] = call.args[1]

ReadEmpty ==
    IF call.fn = "get_weak_areas" THEN call.ret = <<>> ELSE call.ret = ""

CandidateCount(t) ==
    Cardinality({i \in 1..Len(call.results) :
                   /\ collection[call.results[i]].topic = t
                   /\ ~collection[call.results[i]].correct})

\* C14: get_weak_areas(S, topK) returns at most topK topics, none twice;
\* at most 3*topK candidates are retrieved, all of session S; every
\* returned topic has a candidate marked incorrect; the topics are in
\* descending order of their count of incorrect candidates; and the list
\* is empty when the store holds no record at all.
C14_WeakAreas ==
    call.fn = "get_weak_areas" =>
        /\ Len(call.ret) <= call.args[2]
        /\ \A i, j \in 1..Len(call.ret) : call.ret[i] = call.ret[j] => i = j
        /\ Len(call.results) <= 3 * call.args[2]
        /\ \A i \in 1..Len(call.results) :
             call.results[i] \in SessionIds(collection, call.args[1])
        /\ \A i \in 1..Len(call.ret) : CandidateCount(call.ret[i]) >= 1
        /\ \A i, j \in 1..Len(call.ret) :
             i < j => CandidateCount(call.ret[i]) >= CandidateCount(call.ret[j])
        /\ DOMAIN collection = {} => call.ret = <<>>

\* four records of the session, three retrieved with the Code record first,
\* two topics with incorrect candidates, and the one with two of them
\* returned for topK = 1
C14_Witness ==
    /\ call.fn = "get_weak_areas"
    /\ call.args[2] = 1
    /\ Cardinality(SessionIds(collection, call.args[1])) = 4
    /\ Len(call.results) = 3
    /\ collection[call.results[1]].topic = "Code"
    /\ CandidateCount("Code") = 1
    /\ CandidateCount("Math") = 2
    /\ call.ret = <<"Math">>

\* C15: get_session_history_summary(S) returns the empty string when S has
\* no records (a store that cannot be read shows none); otherwise it
\* reports total = the number of records of S, correct = the number of
\* those with score_percent >= 70, and as weak topics exactly the distinct
\* topics of the records of S with score_percent < 70.
C15_HistorySummary ==
    call.fn = "get_session_history_summary" =>
        LET recs    == IF call.up
                       THEN SessionRecords(collection, call.args[1]) ELSE {}
            total   == Cardinality(SessionIds(collection, call.args[1]))
            correct == Cardinality({d \in SessionIds(collection, call.args[1]) :
                                      collection[d].score_percent >= 700})
            weak    == {r.topic : r \in {x \in recs : x.score_percent < 700}}
        IN  IF recs = {} THEN call.ret = ""
            ELSE /\ 0 <= correct /\ correct <= total
                 /\ \E order \in {r \in DistinctSeqs(weak, Cardinality(weak)) :
                                    Len(r) = Cardinality(weak)} :
                      call.ret = SummaryText(correct, total, order)

\* three records of the session, one of them just at 70, and two weak
\* topics reported
C15_Witness ==
    /\ call.fn = "get_session_history_summary"
    /\ call.up
    /\ Cardinality(SessionIds(collection, call.args[1])) = 3
    /\ \E d \in SessionIds(collection, call.args[1]) :
         collection[d].score_percent = 700
    /\ call.ret = "Past performance: 1/3 correct. Weak areas from history: Code, Math."

----------------------------------------------------------------------------
(* Claims about the quiz page and the memory store                        *)

\* the question a run of the quiz page showed
ShownQuestion(c) == quiz[c.pre.current + 1]

\* the session state a Submit with a selection ends in when the store
\* answers
AfterSubmit(c) ==
    [answers |-> Append(c.pre.answers,
                        AnswerRecord(c.pre.current, ShownQuestion(c),
                                     c.args[1])),
     current |-> c.pre.current + 1,
     page    |-> IF c.pre.current + 1 >= Len(quiz) THEN "result"
                 ELSE c.pre.page]

\* C16: a memory-store fault never aborts scoring or progression: a Submit
\* whose store_answer meets a failing store gets False from it, leaves the
\* collection as it was, and still appends the same answer record, advances
\* current by one and makes the same page transition as a Submit whose store
\* answers; a generation whose store fails gets no weak areas and an empty
\* history summary, and a result page whose store fails gets no weak areas.
C16_MemoryFaultNeverAborts ==
    /\ (call.fn = "submit" /\ call.called) =>
          /\ call.ret = call.up
          /\ ~call.up => collection = call.pre.collection
          /\ answers = AfterSubmit(call).answers
          /\ current = AfterSubmit(call).current
          /\ page = AfterSubmit(call).page
    /\ (call.fn = "generate" /\ ~call.mem_up) =>
          /\ call.weak = {}
          /\ call.history = ""
    /\ (call.fn = "new_interview" /\ ~call.mem_up) =>
          call.weak_from_memory = <<>>

\* a Submit of the last question whose store_answer failed: the record is
\* the second of the history and the result page follows
C16_Witness ==
    /\ call.fn = "submit"
    /\ call.called
    /\ ~call.up
    /\ ~call.ret
    /\ call.pre.page = "quiz"
    /\ page = "result"
    /\ Len(answers) = 2
    /\ current = Len(quiz)
    /\ collection = call.pre.collection

\* C17: every answer record appended to the answer history, by Submit or by
\* Skip, is handed to store_answer in the same run.
C17_EveryRecordPersisted ==
    (call.fn \in {"submit", "skip"} /\ call.appended) => call.called

\* C18: every answer record of the history has marks_earned between 0 and
\* marks_total, whatever was chosen (a superset of the correct options
\* included), for questions with one, several or no correct option, and for
\* skipped questions. marks_earned is in hundredths of a mark.
C18_MarksWithinTotal ==
    \A i \in 1..Len(answers) :
        /\ 0 <= answers[i].marks_earned
        /\ answers[i].marks_earned <= answers[i].marks_total * 100

\* the history of an attempt on Q3 and Q4: an option submitted for the
\* question without correct options earned nothing, and all four options
\* submitted for the question with three correct options earned every mark
C18_Witness ==
    /\ Len(answers) = 2
    /\ answers[1].correct = {}
    /\ answers[1].chosen = {"A"}
    /\ answers[1].marks_earned = 0
    /\ answers[2].correct = {"A", "B", "C"}
    /\ answers[2].chosen = {"A", "B", "C", "D"}
    /\ answers[2].marks_earned = answers[2].marks_total * 100
    /\ call.fn = "submit"
    /\ page = "result"

----------------------------------------------------------------------------
(* Claims about the streamed report                                       *)

\* the diagnostic fragment is the last thing appended to buf
EndsWithDiagnostic(b) ==
    /\ Len(b) >= Len(StreamingError)
    /\ SubSeq(b, Len(b) - Len(StreamingError) + 1, Len(b)) = StreamingError

\* C19: ask_llm_stream never raises past its consumer: a failure while the
\* client is obtained, while the request is issued or while the provider
\* stream is iterated makes the sequence yield one final diagnostic
\* fragment and end.
C19_StreamNeverRaises ==
    /\ gen_pc # "raised"
    /\ gen_pc = "failed" => EndsWithDiagnostic(buf)

\* the concatenation of a sequence of strings
RECURSIVE Concat(_)
Concat(fragments) ==
    IF fragments = <<>> THEN ""
    ELSE fragments[1] \o Concat(Tail(fragments))

\* the texts of the text chunks of a stream, in order
RECURSIVE TextOf(_)
TextOf(chunks) ==
    IF chunks = <<>> THEN <<>>
    ELSE (IF chunks[1].kind = "text" THEN <<chunks[1].content>> ELSE <<>>)
         \o TextOf(Tail(chunks))

\* the generator has yielded its diagnostic fragment: the request failed,
\* or the iteration stopped at an error
DiagnosticYielded ==
    \/ gen_pc = "failed"
    \/ /\ gen_pc = "done"
       /\ \/ ~provider.request_ok
          \/ provider.pos <= Len(provider.script)

\* the fragments delivered so far are the texts of the chunks the provider
\* has sent, in the order it sent them
DeliveredInOrder ==
    delivered = TextOf(SubSeq(provider.script, 1, provider.pos - 1))

\* C20: in the streamed report no fragment is skipped or reordered: at every
\* point of the consumption buf is the in-order concatenation of the text
\* fragments the provider has delivered so far, followed by the diagnostic
\* fragment once the request or the stream has failed; after a stream that
\* ended without failure buf is the concatenation of all its fragments.
C20_BufferInOrder ==
    /\ DeliveredInOrder
    /\ buf = Concat(delivered)
                \o (IF DiagnosticYielded THEN StreamingError ELSE "")
    /\ (gen_pc = "done" /\ ~DiagnosticYielded) =>
          buf = Concat(TextOf(provider.script))

\* the provider sent "b", then "a", then failed: buf holds "ba" and the
\* diagnostic fragment
C20_Witness ==
    /\ gen_pc = "failed"
    /\ delivered = <<"b", "a">>
    /\ provider.pos = 3
    /\ provider.script[3].kind = "error"
    /\ buf = "ba" \o StreamingError

\* C20 as first stated: buf is the concatenation of the delivered fragments
\* and nothing else, at every point and after the stream has ended
C20_Original ==
    /\ DeliveredInOrder
    /\ buf = Concat(delivered)
    /\ gen_pc = "done" => buf = Concat(TextOf(provider.script))

----------------------------------------------------------------------------
(* Claims about the page flow                                             *)

\* C21: a Submit with no option selected blocks progression and changes no
\* state: answers, current, page, quiz and the memory store are as they were
\* before the run, no record is appended and store_answer is not called.
C21_EmptySubmitChangesNothing ==
    (call.fn = "submit" /\ call.args[1] = {}) =>
        /\ ~call.appended
        /\ ~call.called
        /\ answers = call.pre.answers
        /\ current = call.pre.current
        /\ page = call.pre.page
        /\ quiz = call.pre.quiz
        /\ collection = call.pre.collection

\* a Submit without selection on the second question, after the first
\* question was answered and stored: the quiz stays on the second question
C21_Witness ==
    /\ call.fn = "submit"
    /\ call.args[1] = {}
    /\ page = "quiz"
    /\ current = 1
    /\ Len(answers) = 1
    /\ collection # EmptyMap
    /\ collection = call.pre.collection

\* the replies that hold no JSON array, or an array that is no JSON
FaultyReplies == {"Sorry", "[{\"question\": ]"}

\* the generation asked the language model and the call failed, or its
\* reply was one of the faulty ones
GenerationFault(c) ==
    /\ c.path = "llm"
    /\ \/ c.llm.kind = "error"
       \/ c.llm.kind = "reply" /\ c.llm.text \in FaultyReplies

\* C22: a generation fault (error of the language model, no JSON array in
\* the reply, malformed JSON) aborts only the generation: afterwards the
\* page is still "setup", is_generating is false, quiz, answers, current,
\* topics and session_id are what they were, and Launch is open again.
C22_GenerationFaultAbortsOnlyAttempt ==
    (call.fn = "generate" /\ GenerationFault(call)) =>
        /\ page = "setup"
        /\ ~is_generating
        /\ quiz = call.pre.quiz
        /\ answers = call.pre.answers
        /\ current = call.pre.current
        /\ topics = call.pre.topics
        /\ session_id = call.pre.session_id
        /\ (topics # <<>> \/ uploaded)

\* a generation for topic "a" whose reply held no array: the setup page is
\* shown again with the topic kept
C22_Witness ==
    /\ call.fn = "generate"
    /\ call.path = "llm"
    /\ call.llm.kind = "reply"
    /\ call.llm.text = "Sorry"
    /\ page = "setup"
    /\ ~is_generating
    /\ topics = <<"a">>
    /\ quiz = <<>>

\* every record of the history answers the question of the shown quiz that
\* its index names
RecordsOfThisQuiz ==
    \A i \in 1..Len(answers) :
        /\ answers[i].index + 1 \in 1..Len(quiz)
        /\ answers[i].question = quiz[answers[i].index + 1].question

\* C23: the answer history is scoped to one attempt: on the setup page, where
\* the next generation reads it, the history is empty and current is 0; when
\* a generation opens the quiz page the history is empty and current is 0;
\* and during an attempt the history holds records of that attempt's
\* questions only.
C23_HistoryScopedToAttempt ==
    /\ page = "setup" => (answers = <<>> /\ current = 0)
    /\ (call.fn = "generate" /\ page = "quiz") =>
          (answers = <<>> /\ current = 0)
    /\ page \in {"quiz", "result"} => RecordsOfThisQuiz

\* the second attempt of a process starts: the records of the first are in
\* the memory store, the history is empty
C23_Witness ==
    /\ call.fn = "generate"
    /\ page = "quiz"
    /\ quiz = <<Q1, Q2>>
    /\ uuid_count = 2
    /\ collection # EmptyMap
    /\ answers = <<>>
    /\ current = 0

\* the history after a step is the history before it, or that history with
\* one record added at the end
UnchangedOrAppended(before, after) ==
    \/ after = before
    \/ /\ Len(after) = Len(before) + 1
       /\ SubSeq(after, 1, Len(before)) = before

\* C24: within an attempt the answer history is append-only and its records
\* are immutable: every step taken on the quiz page (Previous, Submit, Skip,
\* a refused Submit) leaves the history as it was or adds exactly one record
\* at its end, and never changes or removes a record.
C24_AppendOnly ==
    [][page = "quiz" => UnchangedOrAppended(answers, answers')]_vars

\* the first question was answered, Previous went back to it, and it was
\* submitted again: the earlier record is still the first of the history
C24_Witness ==
    /\ call.fn = "submit"
    /\ call.appended
    /\ call.pre.current = 0
    /\ Len(call.pre.answers) = 1
    /\ Len(answers) = 2
    /\ answers[1] = call.pre.answers[1]
    /\ answers[1].index = 0
    /\ answers[1].chosen # answers[2].chosen

\* C25: after any sequence of Previous, Submit and Skip within one attempt
\* the history holds at most one record per question index, and it is never
\* longer than the quiz.
C25_OneRecordPerQuestion ==
    page \in {"quiz", "result"} =>
        /\ Len(answers) <= Len(quiz)
        /\ \A i, j \in 1..Len(answers) :
              i # j => answers[i].index # answers[j].index

\* C26: whenever a generation resolves the "Adaptive (Auto)" preference the
\* history handed to get_next_difficulty is empty, so the difficulty it
\* resolves to, stored in current_difficulty and used for the cache key, is
\* "Moderate".
C26_AdaptiveResolvesModerate ==
    (/\ call.fn = "generate"
     /\ call.path # "pdf_fault"
     /\ difficulty = "Adaptive (Auto)") =>
        /\ call.pre.answers = <<>>
        /\ get_next_difficulty(call.pre.answers) = "Moderate"
        /\ call.args[1].difficulty = "Moderate"
        /\ current_difficulty = "Moderate"

\* the generation of a second attempt with the adaptive preference, after a
\* first attempt whose answers were stored: it resolved to "Moderate"
C26_Witness ==
    /\ call.fn = "generate"
    /\ call.path = "llm"
    /\ difficulty = "Adaptive (Auto)"
    /\ uuid_count = 2
    /\ collection # EmptyMap
    /\ call.args[1].difficulty = "Moderate"
    /\ page = "quiz"

\* the position during an attempt: within the quiz, at its end on the result
\* page, and at its end on the quiz page only for a quiz without questions;
\* Submit and Skip ran on a question the quiz has; the result page of a quiz
\* with questions follows a Submit on the last one
PositionInRange ==
    /\ 0 <= current
    /\ current <= Len(quiz)
    /\ call.fn \in {"submit", "skip"} =>
          call.pre.current < Len(call.pre.quiz)
    /\ page = "result" => current = Len(quiz)
    /\ (page = "quiz" /\ current = Len(quiz)) => quiz = <<>>
    /\ (page = "result" /\ quiz # <<>>) =>
          /\ answers # <<>>
          /\ answers[Len(answers)].index = Len(quiz) - 1
          /\ answers[Len(answers)].chosen # {}

\* a run of the quiz page moves to the result page exactly when the
\* position it leaves is the end of the quiz
ResultWhenAtEnd ==
    page = "quiz" => ((page' = "result") <=> (current' = Len(quiz)))

\* C27: in every state of an attempt 0 <= current <= len(quiz); a question
\* is indexed only when current < len(quiz); the page becomes "result"
\* exactly when current has reached len(quiz); and for a quiz with questions
\* the result page is reached only by a Submit on the last question, so the
\* history is not empty there.
C27_PositionAndResult == []PositionInRange /\ [][ResultWhenAtEnd]_vars

\* the result page of a quiz of two questions: the first was skipped, the
\* second submitted
C27_Witness ==
    /\ page = "result"
    /\ quiz = <<Q1, Q2>>
    /\ current = 2
    /\ call.fn = "submit"
    /\ call.pre.current = 1
    /\ Len(answers) = 2
    /\ answers[1].chosen = {}
    /\ answers[2].index = 1

\* the document store_answer wrote for the question a Submit answered
StoredBySubmit(c) ==
    collection[DocId(session_id, ShownQuestion(c).question)]

\* C28: for every record Submit creates on a question with marks_total > 0,
\* full marks imply full correctness: marks_earned equals marks_total only
\* if correct_flag is true; and a record stored in memory with score_percent
\* 100 belongs to an answer that was fully correct.
C28_FullMarksImplyCorrect ==
    /\ \A i \in 1..Len(answers) :
          (/\ answers[i].chosen # {}
           /\ answers[i].marks_total > 0
           /\ answers[i].marks_earned = answers[i].marks_total * 100)
             => answers[i].correct_flag
    /\ (call.fn = "submit" /\ call.called /\ call.ret) =>
          (StoredBySubmit(call).score_percent = 1000
             => answers[Len(answers)].correct_flag)

============================================================================
